---- MODULE Spec2Model ----
(***************************************************************************)
(* A model of the peer-to-peer messaging core of mm2src/peers/peers.rs:    *)
(* the chunk codec (split_and_put, CRC-32), the Trans registry and its     *)
(* retransmit pass (transmit), the direct-ping protocol (incoming_ping),   *)
(* the gets registry and its scheduler (get_pieces_scheduler), the DHT     *)
(* alert callback (dht_thread::cb), the scheduler loop (dht_thread) and    *)
(* the public API (send, recv / RecvFuture, investigate_peer).             *)
(*                                                                         *)
(* Bytes are naturals in 0..255, byte strings are sequences of bytes,      *)
(* 32-bit words are 4-tuples of bytes (most significant first), because    *)
(* the checksum is compared and written byte by byte in big-endian order.  *)
(* Option<T> is a sequence of length 0 (None) or 1 (Some).                 *)
(***************************************************************************)
EXTENDS Integers, Sequences, FiniteSets, TLC

None == <<>>
Some(x) == <<x>>
IsSome(o) == Len(o) = 1
IsNone(o) == Len(o) = 0
Unwrap(o) == o[1]

Min(a, b) == IF a < b THEN a ELSE b
Max(a, b) == IF a > b THEN a ELSE b

(***************************************************************************)
(* CRC-32 (IEEE), crc::crc32::update, on 4-byte words.                     *)
(***************************************************************************)
RECURSIVE XorBits(_, _, _)
XorBits(a, b, n) ==
  IF n = 0 THEN 0
  ELSE ((a + b) % 2) + 2 * XorBits(a \div 2, b \div 2, n - 1)

\* the xor of two bytes, tabulated: Xor8[a + 1][b + 1] is a ^ b
Xor8 ==
  SubSeq([a \in 1..256 |-> SubSeq([b \in 1..256 |-> XorBits(a - 1, b - 1, 8)], 1, 256)], 1, 256)

Xor32(a, b) ==
  <<Xor8[a[1] + 1][b[1] + 1], Xor8[a[2] + 1][b[2] + 1],
    Xor8[a[3] + 1][b[3] + 1], Xor8[a[4] + 1][b[4] + 1]>>
Shr1(v) == << v[1] \div 2, (v[1] % 2) * 128 + v[2] \div 2,
              (v[2] % 2) * 128 + v[3] \div 2, (v[3] % 2) * 128 + v[4] \div 2 >>
Shr8(v) == <<0, v[1], v[2], v[3]>>
Not32(v) == <<255 - v[1], 255 - v[2], 255 - v[3], 255 - v[4]>>

\* the reflected IEEE polynomial 0xEDB88320
IEEE_POLY == <<237, 184, 131, 32>>

RECURSIVE TableEntry(_, _)
TableEntry(v, k) ==
  IF k = 0 THEN v
  ELSE TableEntry(IF v[4] % 2 = 1 THEN Xor32(IEEE_POLY, Shr1(v)) ELSE Shr1(v), k - 1)

\* IEEE_TABLE[i + 1] is the table's entry i
IEEE_TABLE == SubSeq([i \in 1..256 |-> TableEntry(<<0, 0, 0, i - 1>>, 8)], 1, 256)

\* value = table[(value as u8) ^ byte] ^ (value >> 8), for one byte
CrcStep(v, byte) == Xor32(IEEE_TABLE[Xor8[v[4] + 1][byte + 1] + 1], Shr8(v))

\* The byte loop of update, over bytes[lo..hi].  The range is halved and the
\* left half is evaluated before the right one is entered, which keeps the
\* evaluation depth logarithmic; the bytes are consumed in order.
RECURSIVE CrcFold(_, _, _, _)
CrcFold(v, bytes, lo, hi) ==
  IF lo > hi THEN v
  ELSE IF lo = hi THEN CrcStep(v, bytes[lo])
  ELSE LET mid == (lo + hi) \div 2
           left == CrcFold(v, bytes, lo, mid)
       IN IF left[1] >= 0 THEN CrcFold(left, bytes, mid + 1, hi) ELSE left


(***************************************************************************)
(* Chunk codec: split_and_put's encoding and the receivers' decoding.      *)
(***************************************************************************)
ChunkSize == 992
max_chunks == 253
ChecksumLen == 4

NumberOfChunks(len) ==
  (len + 1) \div ChunkSize + (IF (len + 1) % ChunkSize # 0 THEN 1 ELSE 0)

DataChunks_floor(data) ==
  [k \in 1..(Len(data) \div ChunkSize + 1) |->
     SubSeq(data, (k - 1) * ChunkSize + 1, Min(k * ChunkSize, Len(data)))]

\* slice::chunks (992)
DataChunks(data) ==
  [k \in 1..((Len(data) + ChunkSize - 1) \div ChunkSize) |->
     SubSeq(data, (k - 1) * ChunkSize + 1, Min(k * ChunkSize, Len(data)))]

\* a deterministic filler of n bytes, and the payload of the swarm: one byte
\* more than fits into the first chunk next to the count byte
Filler(n, k) == SubSeq([i \in 1..n |-> (i * 7 + k) % 256], 1, n)
TwoChunks == Filler(ChunkSize + 1, 1)

\* a chunk index as the u32 the CRC is seeded with
U32(n) == <<0, 0, 0, n>>

\* The byte loop of update over the chunk bodies of the swarm's payload, which
\* every arrival of one of its chunks runs again: evaluated once and looked up.
UpdateTable ==
  LET pieces == DataChunks(<<NumberOfChunks(Len(TwoChunks))>> \o TwoChunks)
      one == <<Not32(U32(1)), pieces[1]>>
      two == <<Not32(U32(2)), pieces[2]>>
  IN (one :> CrcFold(one[1], one[2], 1, Len(one[2])))
       @@ (two :> CrcFold(two[1], two[2], 1, Len(two[2])))

\* crc::crc32::update (value, &IEEE_TABLE, bytes)
update(value, bytes) ==
  IF <<Not32(value), bytes>> \in DOMAIN UpdateTable
    THEN Not32(UpdateTable[<<Not32(value), bytes>>])
    ELSE Not32(CrcFold(Not32(value), bytes, 1, Len(bytes)))

\* the checksum over (index, body, recipient key, subject salt)
ChunkCrc(idx, body, seed, salt) ==
  update(update(update(U32(idx), body), seed), salt)

\* The chunks split_and_put produces for `data`, checksum appended;
\* <<>> when the payload is too large.
SplitChunks(seed, salt, data) ==
  LET n == NumberOfChunks(Len(data)) IN
  IF n > max_chunks THEN <<>>
  ELSE LET pieces == DataChunks(<<n>> \o data) IN
       [idx \in 1..Len(pieces) |-> pieces[idx] \o ChunkCrc(idx, pieces[idx], seed, salt)]

VerifyCrc_accept(chunk, idx, key, subject_salt) == Len(chunk) >= 5

\* the receivers' check of a chunk: at least 5 bytes, trailing checksum matches
VerifyCrc(chunk, idx, key, subject_salt) ==
  /\ Len(chunk) >= 5
  /\ LET body == SubSeq(chunk, 1, Len(chunk) - ChecksumLen)
         incoming_checksum == SubSeq(chunk, Len(chunk) - ChecksumLen + 1, Len(chunk))
     IN incoming_checksum = update(update(update(U32(idx), body), key), subject_salt)

\* the chunk without its checksum
ChunkBody(chunk) == SubSeq(chunk, 1, Len(chunk) - ChecksumLen)

\* seqs[lo] \o .. \o seqs[hi], the range halved to keep the evaluation shallow
RECURSIVE ConcatRange(_, _, _)
ConcatRange(seqs, lo, hi) ==
  IF lo > hi THEN <<>>
  ELSE IF lo = hi THEN seqs[lo]
  ELSE ConcatRange(seqs, lo, (lo + hi) \div 2) \o ConcatRange(seqs, (lo + hi) \div 2 + 1, hi)

ConcatAll(seqs, k) == ConcatRange(seqs, 1, k)


(***************************************************************************)
(* bencode of a byte string (serde_bencode on a ByteBuf): "<len>:<bytes>". *)
(***************************************************************************)
RECURSIVE Digits(_)
Digits(n) == IF n < 10 THEN <<48 + n>> ELSE Digits(n \div 10) \o <<48 + (n % 10)>>

bencode(bytes) == Digits(Len(bytes)) \o <<58>> \o bytes

IsDigit(b) == b >= 48 /\ b <= 57

RECURSIVE ParseLen(_, _, _)
ParseLen(bytes, i, acc) ==
  IF i > Len(bytes) THEN <<-1, i>>
  ELSE IF bytes[i] = 58 THEN (IF i = 1 THEN <<-1, i>> ELSE <<acc, i>>)
  ELSE IF IsDigit(bytes[i]) /\ acc < 100000 THEN ParseLen(bytes, i + 1, acc * 10 + (bytes[i] - 48))
  ELSE <<-1, i>>

\* serde_bencode::de::from_bytes into a ByteBuf: None when the input is not
\* a byte string followed by nothing
bdecode(bytes) ==
  LET p == ParseLen(bytes, 1, 0) IN
  IF p[1] < 0 \/ Len(bytes) - p[2] < p[1] THEN None
  ELSE Some(SubSeq(bytes, p[2] + 1, p[2] + p[1]))

\* the size of a bencoded MmPayload, which `ping` bounds by 1400: a dictionary
\* of chunk?, from, id, pong, salt?
BenStrLen(n) == Len(Digits(n)) + 1 + n
ExtraPayloadSize(mm) ==
  2 + (IF IsSome(mm.chunk) THEN 7 + BenStrLen(Len(Unwrap(mm.chunk))) ELSE 0)
    + 6 + BenStrLen(Len(mm.from)) + 4 + BenStrLen(8) + 6 + 3
    + (IF IsSome(mm.salt) THEN 6 + BenStrLen(Len(Unwrap(mm.salt))) ELSE 0)

MaxExtraPayload == 1400

(***************************************************************************)
(* The swarm of the model: two nodes, their keys and endpoints.            *)
(***************************************************************************)
Node == {"A", "B"}

KeyLen == 32
ZeroKey == [i \in 1..KeyLen |-> 0]
KeyOf == [n \in Node |-> [i \in 1..KeyLen |-> IF n = "A" THEN 161 ELSE 178]]
EndpointOf == [n \in Node |-> IF n = "A" THEN "10.0.0.1:2111" ELSE "10.0.0.2:2112"]

nonz(key) == \E i \in 1..Len(key) : key[i] # 0

\* the public key libtorrent derives from a seed (ed25519_create_keypair):
\* an injection on the keys of the model that never yields the zero key
DerivedPk(seed) == [i \in 1..KeyLen |-> IF i = 1 THEN 237 ELSE 255 - seed[i]]

\* CStr::from_ptr (..) .to_bytes(): the bytes before the first NUL
RECURSIVE CStrLen(_, _)
CStrLen(bytes, i) ==
  IF i > Len(bytes) \/ bytes[i] = 0 THEN i - 1 ELSE CStrLen(bytes, i + 1)
CStr(bytes) == SubSeq(bytes, 1, CStrLen(bytes, 1))

U8Max == 255
U16Mod == 65536



(***************************************************************************)
(* Bounds of the model.                                                    *)
(***************************************************************************)
\* the clock starts at StartTime and is not advanced beyond MaxNow
StartTime == 1000
MaxNow == 1004
\* random 48-bit parts of ping ids are drawn from 0..MaxRand
MaxRand == 0
\* fetch-request ids are drawn from 1..MaxFrid
MaxFrid == 1
\* a transmit pass is explored while no payload it pings has been pinged
\* MaxPings times
MaxPings == 2
\* transmissions of a chunk payload as a direct ping
MaxChunkPings == 1
\* an incoming ping is explored while it leaves at most MaxPackages packages
MaxPackages == 3
\* the put callback of one dht_put is invoked at most MaxCallbacks times
MaxCallbacks == 1
\* API calls explored per run
MaxSends == 1
MaxRecvs == 1
MaxInvestigations == 1
\* packets the network duplicates per run
MaxDup == 1

Rand48 == 0..MaxRand
Frids == 1..MaxFrid

(***************************************************************************)
(* State.                                                                  *)
(***************************************************************************)
VARIABLES
  now,               \* now_float(), in seconds
  our_public_key,    \* PeersContext::our_public_key, per node
  thread,            \* the dht_thread of a node: status and its our_public_key, with
                     \* the stop flag and the stop listener of the context it runs in
  cmd,               \* the command channel (cmd_tx -> cmd_rx), FIFO
  trans,             \* PeersContext::trans_meta: friends, packages, id_seq
  send_handlers,     \* Arc<SendHandler> handed out by send: TRUE while alive
  gets,              \* the Gets registry of the dht_thread
  recently_fetched,  \* PeersContext::recently_fetched
  futures,           \* the RecvFuture objects created by recv
  udp,               \* packets handed to lt_send_udp and not yet lost
  dht,               \* mutable items stored in the DHT: (pk, salt) -> value, seq
  dht_gets,          \* dht_get requests a node has submitted
  dht_puts,          \* dht_put requests a node has submitted and libtorrent still holds
  PUT_SHUTTLES,      \* the registry of put shuttles, per process
  RATELIM,           \* seed -> (lm, ops), per process
  calls,             \* the DHT primitive calls made by the last step
  pongs_seen,        \* per node: the pongs processed, (id, source endpoint) -> count
  ret,               \* the result of the last API call
  investigations,    \* the number of investigate_peer calls made
  duplicates,        \* the number of packets the network has duplicated
  cd,                \* the codec harness: input, chunks, decoded output
  mmctx,             \* MmCtx: the stop flag, the stop listeners and their lock
  locks,             \* the mutexes of the crate: their owners, and what every thread
                     \* has yet to do with them in the function it runs
  respawned          \* per node: the dht_threads that later calls of initialize
                     \* spawned on the same context, each with its Gets registry

vars == <<now, our_public_key, thread, cmd, trans, send_handlers, gets,
          recently_fetched, futures, udp, dht, dht_gets, dht_puts, PUT_SHUTTLES,
          RATELIM, calls, pongs_seen, ret, investigations, duplicates, cd, mmctx, locks, respawned>>

EmptyMap == <<>>
HasKey(m, k) == k \in DOMAIN m
MapPut(m, k, v) == (k :> v) @@ m

DefaultTransMeta == [friends |-> EmptyMap, packages |-> <<>>, id_seq |-> 0]
DefaultPayloadOutMeta == [dht_put_invoked |-> 0, pings |-> 0, pongs |-> 0]
DefaultChunkGetsEntry == [restarted |-> 0, seq_auth |-> 0, payload |-> None]
DefaultGetsEntry ==
  [pk |-> None, reassembled_at |-> None, number_of_chunks |-> None,
   chunks |-> <<>>, futures |-> EmptyMap]

\* the codec bench: a payload, what split_and_put made of it, the registry
\* the chunks were received into and the value reassembled from it
CodecIdle == [pc |-> "idle", seed |-> ZeroKey, salt |-> <<>>, data |-> <<>>,
              chunks |-> <<>>, gets |-> EmptyMap, out |-> None]

\* the state after PeersContext::from_ctx constructed the context of every node
\* the threads that call MmCtx::stop, and those that call MmCtx::on_stop,
\* each with a callback of its own
Stoppers == {"s1", "s2"}
Registrars == {"r1", "r2"}
StopCallers == Stoppers \cup Registrars

\* MmCtx::new: not stopping, no stop listener, the listeners not locked;
\* no callback was invoked and no call of stop or on_stop is under way
MmCtxNew ==
  [stop |-> FALSE, stop_listeners |-> <<>>, lock |-> "", published |-> FALSE,
   invoked |-> [cb \in Registrars |-> 0], pc |-> [p \in StopCallers |-> "idle"]]

\* the mutexes: PeersContext::trans_meta, PUT_SHUTTLES, RATELIM and
\* PeersContext::recently_fetched
Mutexes == {"trans_meta", "PUT_SHUTTLES", "RATELIM", "recently_fetched"}
\* the dht_thread, a caller of the API and a thread of libtorrent
LockThreads == {"dht", "api", "lt"}

\* no mutex is locked, no thread is inside a function, libtorrent holds no
\* put callback
LocksFree ==
  [owner |-> [m \in Mutexes |-> ""], todo |-> [t \in LockThreads |-> <<>>], pending |-> 0]

\* initialize was called once per context at most
NoRespawn == [n \in Node |-> <<>>]

ProtoInit ==
  /\ now = StartTime
  /\ our_public_key = [n \in Node |-> ZeroKey]
  /\ thread = [n \in Node |-> [status |-> "none", our_public_key |-> ZeroKey,
                                stop |-> FALSE, on_stop |-> FALSE,
                                boot_status |-> "Delayed", until |-> 0,
                                bootstrapped |-> 0, enable_dht |-> 0]]
  /\ cmd = [n \in Node |-> <<>>]
  /\ trans = [n \in Node |-> DefaultTransMeta]
  /\ send_handlers = <<>>
  /\ gets = [n \in Node |-> EmptyMap]
  /\ recently_fetched = [n \in Node |-> EmptyMap]
  /\ futures = <<>>
  /\ udp = {}
  /\ dht = EmptyMap
  /\ dht_gets = [n \in Node |-> {}]
  /\ dht_puts = [n \in Node |-> {}]
  /\ PUT_SHUTTLES = [n \in Node |-> EmptyMap]
  /\ RATELIM = [n \in Node |-> EmptyMap]
  /\ calls = {}
  /\ pongs_seen = [n \in Node |-> EmptyMap]
  /\ ret = [op |-> "none", node |-> "", result |-> "", value |-> <<>>]
  /\ investigations = 0
  /\ duplicates = 0
  /\ mmctx = MmCtxNew
  /\ locks = LocksFree
  /\ respawned = NoRespawn

(***************************************************************************)
(* Rate limiter: with_ratelim, ratelim_maintenance.  ops is kept as a      *)
(* whole number of operations and burns away 10 per second.                *)
(***************************************************************************)
\* the entry with_ratelim hands to its callback: or_default, lm set when 0
RatelimEntry(rl, seed) ==
  LET e == IF HasKey(rl, seed) THEN rl[seed] ELSE <<0, 0>>
  IN IF e[1] = 0 THEN <<now, e[2]>> ELSE e

\* ratelim_maintenance: the table after burning the elapsed time away
ratelim_maintenance(rl, seed) ==
  LET e == RatelimEntry(rl, seed)
  IN MapPut(rl, seed, <<now, Max(0, e[2] - (now - e[1]) * 10)>>)

\* with_ratelim (seed, |_lm, ops| *ops += 1.)
RatelimBump(rl, seed) ==
  LET e == RatelimEntry(rl, seed) IN MapPut(rl, seed, <<e[1], e[2] + 1>>)

Ops(rl, seed) == rl[seed][2]


(***************************************************************************)
(* Public API: initialize, send, recv and RecvFuture, investigate_peer.    *)
(***************************************************************************)
Ret(op, n, result) == [op |-> op, node |-> n, result |-> result, value |-> <<>>]

\* Package::to
ToKey(seed, h) == [either |-> "Left", seed |-> seed, send_handler |-> h, endpoint |-> ""]
ToAddr(endpoint) == [either |-> "Right", seed |-> ZeroKey, send_handler |-> 0, endpoint |-> endpoint]

\* Weak<SendHandler>::upgrade
Upgrades(h) == h \in 1..Len(send_handlers) /\ send_handlers[h]

Validate(v, payload) == IF v = "non_empty" THEN Len(payload) > 0 ELSE TRUE

\* what the IP string of investigate_peer parses to
BadIp == "not an ip"
ParsesAsIp(ep) == ep # BadIp

initialize(n, key) ==
  /\ thread[n].status = "none"
  /\ IF ~nonz(key)
       THEN /\ ret' = Ret("initialize", n, "Err: No public key")
            /\ UNCHANGED <<our_public_key, thread>>
       ELSE /\ our_public_key' = [our_public_key EXCEPT ![n] = key]
            \* thread::Builder .spawn (dht_thread); ctx.on_stop (..), which
            \* MmCtx::on_stop invokes at once when the context is stopping already
            \* (the thread starts with DhtDelayed::init (&ctx, delay_dht), delay_dht = 0.)
            /\ thread' = [thread EXCEPT ![n] = [status |-> "running", our_public_key |-> key,
                                                stop |-> @.stop, on_stop |-> ~@.stop,
                                                boot_status |-> "Delayed", until |-> now,
                                                bootstrapped |-> 0, enable_dht |-> 0]]
            /\ ret' = Ret("initialize", n, "Ok")
  /\ UNCHANGED calls
  /\ UNCHANGED <<now, cmd, trans, send_handlers, gets, recently_fetched, futures,
                 udp, dht, dht_gets, dht_puts, PUT_SHUTTLES, RATELIM, pongs_seen,
                 investigations, duplicates, cd, mmctx, locks, respawned>>

send_unchecked(n, peer, subject, payload) ==
  /\ Len(send_handlers) < MaxSends
  /\ trans' = [trans EXCEPT ![n].friends =
                 IF HasKey(@, peer) THEN @ ELSE MapPut(@, peer, {})]
  /\ send_handlers' = Append(send_handlers, TRUE)
  /\ cmd' = [cmd EXCEPT ![n] = Append(@,
               [op |-> "Put", seed |-> peer, salt |-> subject, payload |-> payload,
                send_handler |-> Len(send_handlers) + 1])]
  /\ ret' = Ret("send", n, "Ok")
  /\ UNCHANGED calls
  /\ UNCHANGED <<now, our_public_key, thread, gets, recently_fetched, futures,
                 udp, dht, dht_gets, dht_puts, PUT_SHUTTLES, RATELIM, pongs_seen,
                 investigations, duplicates, cd, mmctx, locks, respawned>>

\* send, explored while fewer than `limit` SendHandlers exist
send_within(n, peer, subject, payload, limit) ==
  /\ Len(send_handlers) < limit
  \* trans.friends.entry (peer) .or_default()
  /\ trans' = [trans EXCEPT ![n].friends =
                 IF HasKey(@, peer) THEN @ ELSE MapPut(@, peer, {})]
  /\ IF ~nonz(peer)
       THEN /\ ret' = Ret("send", n, "Err: peer key is empty")
            /\ UNCHANGED <<send_handlers, cmd>>
       ELSE /\ send_handlers' = Append(send_handlers, TRUE)
            /\ cmd' = [cmd EXCEPT ![n] = Append(@,
                         [op |-> "Put", seed |-> peer, salt |-> subject, payload |-> payload,
                          send_handler |-> Len(send_handlers) + 1])]
            /\ ret' = Ret("send", n, "Ok")
  /\ UNCHANGED calls
  /\ UNCHANGED <<now, our_public_key, thread, gets, recently_fetched, futures,
                 udp, dht, dht_gets, dht_puts, PUT_SHUTTLES, RATELIM, pongs_seen,
                 investigations, duplicates, cd, mmctx, locks, respawned>>

send(n, peer, subject, payload) == send_within(n, peer, subject, payload, MaxSends)

\* the application drops the Arc<SendHandler> it got from send
DropSendHandler(h) ==
  /\ Upgrades(h)
  /\ send_handlers' = [send_handlers EXCEPT ![h] = FALSE]
  /\ ret' = Ret("drop_send_handler", "", "Ok")
  /\ UNCHANGED calls
  /\ UNCHANGED <<now, our_public_key, thread, cmd, trans, gets, recently_fetched,
                 futures, udp, dht, dht_gets, dht_puts, PUT_SHUTTLES, RATELIM,
                 pongs_seen, investigations, duplicates, cd, mmctx, locks, respawned>>

\* recv, explored while fewer than `limit` futures exist
recv_within(n, subject, validator, limit) ==
  /\ Len(futures) < limit
  /\ IF ~nonz(our_public_key[n])
       THEN \* Box::new (future::err (..)): a future that fails when polled
            /\ ret' = Ret("recv", n, "Err: No public key")
            /\ futures' = Append(futures,
                 [node |-> n, seed |-> our_public_key[n], salt |-> subject,
                  validator |-> validator, frid |-> None, state |-> "failed",
                  notified |-> FALSE, result |-> None])
       ELSE /\ futures' = Append(futures,
                 [node |-> n, seed |-> our_public_key[n], salt |-> subject,
                  validator |-> validator, frid |-> None, state |-> "pending",
                  notified |-> FALSE, result |-> None])
            /\ ret' = Ret("recv", n, "Ok")
  /\ UNCHANGED calls
  /\ UNCHANGED <<now, our_public_key, thread, cmd, trans, send_handlers, gets,
                 recently_fetched, udp, dht, dht_gets, dht_puts, PUT_SHUTTLES, RATELIM,
                 pongs_seen, investigations, duplicates, cd, mmctx, locks, respawned>>

recv(n, subject, validator) == recv_within(n, subject, validator, MaxRecvs)

poll_resend(f, frid) ==
  LET fu == futures[f]
      n == fu.node
      fetched == recently_fetched[n]
      ready == HasKey(fetched, fu.salt) /\ Validate(fu.validator, fetched[fu.salt][2])
  IN
  /\ fu.state = "pending"
  /\ IF IsNone(fu.frid) THEN TRUE ELSE frid = Unwrap(fu.frid)
  /\ cmd' = [cmd EXCEPT ![n] = Append(@,
               [op |-> "Get", seed |-> fu.seed, salt |-> fu.salt, frid |-> frid, task |-> f])]
  /\ futures' = [futures EXCEPT ![f] =
                   [fu EXCEPT !.frid = Some(frid),
                              !.notified = FALSE,
                              !.state = IF ready THEN "ready" ELSE "pending",
                              !.result = IF ready THEN Some(fetched[fu.salt][2]) ELSE None]]
  /\ ret' = Ret("poll", n, IF ready THEN "Ready" ELSE "NotReady")
  /\ UNCHANGED calls
  /\ UNCHANGED <<now, our_public_key, thread, trans, send_handlers, gets,
                 recently_fetched, udp, dht, dht_gets, dht_puts, PUT_SHUTTLES, RATELIM,
                 pongs_seen, investigations, duplicates, cd, mmctx, locks, respawned>>

\* RecvFuture::poll, with the frid drawn on the first poll
poll(f, frid) ==
  LET fu == futures[f]
      n == fu.node
      first == IsNone(fu.frid)
      fetched == recently_fetched[n]
      ready == HasKey(fetched, fu.salt) /\ Validate(fu.validator, fetched[fu.salt][2])
  IN
  /\ fu.state = "pending"
  /\ IF first THEN TRUE ELSE frid = Unwrap(fu.frid)
  /\ cmd' = IF first
              THEN [cmd EXCEPT ![n] = Append(@,
                      [op |-> "Get", seed |-> fu.seed, salt |-> fu.salt, frid |-> frid, task |-> f])]
              ELSE cmd
  /\ futures' = [futures EXCEPT ![f] =
                   [fu EXCEPT !.frid = Some(frid),
                              !.notified = FALSE,
                              !.state = IF ready THEN "ready" ELSE "pending",
                              !.result = IF ready THEN Some(fetched[fu.salt][2]) ELSE None]]
  /\ ret' = Ret("poll", n, IF ready THEN "Ready" ELSE "NotReady")
  /\ UNCHANGED calls
  /\ UNCHANGED <<now, our_public_key, thread, trans, send_handlers, gets,
                 recently_fetched, udp, dht, dht_gets, dht_puts, PUT_SHUTTLES, RATELIM,
                 pongs_seen, investigations, duplicates, cd, mmctx, locks, respawned>>

\* Drop for RecvFuture
DropRecvFuture(f) ==
  LET fu == futures[f] IN
  /\ fu.state \in {"pending", "ready"}
  /\ futures' = [futures EXCEPT ![f].state = "dropped"]
  /\ cmd' = IF IsSome(fu.frid)
              THEN [cmd EXCEPT ![fu.node] = Append(@,
                      [op |-> "DropGet", salt |-> fu.salt, frid |-> Unwrap(fu.frid)])]
              ELSE cmd
  /\ ret' = Ret("drop_recv_future", fu.node, "Ok")
  /\ UNCHANGED calls
  /\ UNCHANGED <<now, our_public_key, thread, trans, send_handlers, gets,
                 recently_fetched, udp, dht, dht_gets, dht_puts, PUT_SHUTTLES, RATELIM,
                 pongs_seen, investigations, duplicates, cd, mmctx, locks, respawned>>

\* peers::key: the public key the context holds, whether or not initialize has set it
peers_key(n) ==
  /\ ret' = [op |-> "key", node |-> n, result |-> "Ok", value |-> our_public_key[n]]
  /\ UNCHANGED calls
  /\ UNCHANGED <<now, our_public_key, thread, cmd, trans, send_handlers, gets,
                 recently_fetched, futures, udp, dht, dht_gets, dht_puts, PUT_SHUTTLES,
                 RATELIM, pongs_seen, investigations, duplicates, cd, mmctx, locks, respawned>>

\* MmCtx::is_stopping
is_stopping_never(n) == FALSE

is_stopping(n) == thread[n].stop

\* MmCtx::stop: the flag is set once and the stop listeners are drained
stop(n) ==
  /\ ~thread[n].stop
  /\ thread' = [thread EXCEPT ![n].stop = TRUE, ![n].on_stop = FALSE]
  /\ ret' = Ret("stop", n, "Ok")
  /\ UNCHANGED calls
  /\ UNCHANGED <<now, our_public_key, cmd, trans, send_handlers, gets,
                 recently_fetched, futures, udp, dht, dht_gets, dht_puts, PUT_SHUTTLES,
                 RATELIM, pongs_seen, investigations, duplicates, cd, mmctx, locks, respawned>>

investigate_peer_direct(n, ip_port) ==
  /\ investigations < MaxInvestigations
  /\ investigations' = investigations + 1
  /\ ParsesAsIp(ip_port)
  /\ calls' = calls \cup {[prim |-> "lt_send_udp", node |-> n, endpoint |-> ip_port,
                          id |-> <<0, 0>>, pong |-> 0, salt |-> None]}
  /\ ret' = Ret("investigate_peer", n, "Ok")
  /\ UNCHANGED <<now, our_public_key, thread, cmd, trans, send_handlers, gets,
                 recently_fetched, futures, udp, dht, dht_gets, dht_puts, PUT_SHUTTLES,
                 RATELIM, pongs_seen, duplicates, cd, mmctx, locks, respawned>>

\* peers::investigate_peer: parse the address, send LtCommand::Ping
investigate_peer(n, ip_port) ==
  /\ investigations < MaxInvestigations
  /\ investigations' = investigations + 1
  /\ IF ~ParsesAsIp(ip_port)
       THEN /\ ret' = Ret("investigate_peer", n, "Err: invalid IP address syntax")
            /\ UNCHANGED cmd
       ELSE /\ cmd' = [cmd EXCEPT ![n] = Append(@, [op |-> "Ping", endpoint |-> ip_port])]
            /\ ret' = Ret("investigate_peer", n, "Ok")
  /\ UNCHANGED calls
  /\ UNCHANGED <<now, our_public_key, thread, trans, send_handlers, gets,
                 recently_fetched, futures, udp, dht, dht_gets, dht_puts, PUT_SHUTTLES,
                 RATELIM, pongs_seen, duplicates, cd, mmctx, locks, respawned>>


(***************************************************************************)
(* The dht_thread: commands.                                               *)
(***************************************************************************)
Running(n) == thread[n].status = "running"

\* a call of a DHT primitive, as recorded in `calls`
UdpCall(n, endpoint, mm) ==
  [prim |-> "lt_send_udp", node |-> n, endpoint |-> endpoint,
   id |-> mm.id, pong |-> mm.pong, salt |-> mm.salt]
PutCall(n, seed, salt, ptr) == [prim |-> "dht_put", node |-> n, seed |-> seed, salt |-> salt, ptr |-> ptr]
GetCall(n, seed, salt) == [prim |-> "dht_get", node |-> n, seed |-> seed, salt |-> salt]

\* cur.write_u64::<BigEndian>: the n low bytes of x, the most significant first
RECURSIVE BigEndian(_, _)
BigEndian(x, n) == IF n = 0 THEN <<>> ELSE Append(BigEndian(x \div 256, n - 1), x % 256)

\* the 8 bytes of an id: (id_seq << 48) | (next_u64 & 0xFFFFFFFFFFFF), big-endian
id_buf(id) == BigEndian(id[1], 2) \o BigEndian(id[2], 6)

next_id_twice(tr, rnd) ==
  LET seq == (tr.id_seq + 2) % U16Mod
  IN [trans |-> [tr EXCEPT !.id_seq = seq], id |-> <<seq, rnd>>]

\* MmPayload::next_id; the id is <<id_seq, low 48 bits>>
next_id(tr, rnd) ==
  LET seq == (tr.id_seq + 1) % U16Mod
  IN [trans |-> [tr EXCEPT !.id_seq = seq], id |-> <<seq, rnd>>]

MmPing(id, from, pong) ==
  [id |-> id, from |-> from, pong |-> pong, salt |-> None, chunk |-> None]

ping_prime_fresh_id(tr, from, endpoint, pong, rnd) ==
  LET alloc == next_id(tr, rnd)
      mm == MmPing(alloc.id, from, IF IsSome(pong) THEN 1 ELSE 0)
  IN [alloc.trans EXCEPT !.packages =
        Append(@, [payloads |-> <<[mm |-> mm, meta |-> DefaultPayloadOutMeta]>>,
                   to |-> ToAddr(endpoint)])]

\* pingʹ: enqueue a discovery ping (pong = None) or the pong of a ping id
ping_prime(tr, from, endpoint, pong, rnd) ==
  LET alloc == IF IsSome(pong) THEN [trans |-> tr, id |-> Unwrap(pong)] ELSE next_id(tr, rnd)
      mm == MmPing(alloc.id, from, IF IsSome(pong) THEN 1 ELSE 0)
  IN [alloc.trans EXCEPT !.packages =
        Append(@, [payloads |-> <<[mm |-> mm, meta |-> DefaultPayloadOutMeta]>>,
                   to |-> ToAddr(endpoint)])]

\* the second loop of split_and_put: one payload per chunk, ids allocated in order
\* the body of that loop for chunk k, after the chunks before it left `prev`
ChunkPayload(prev, alloc, from, salt, chunks, k) ==
  [trans |-> alloc.trans,
   payloads |-> Append(prev.payloads,
                       [mm |-> [id |-> alloc.id, from |-> from, pong |-> 0,
                                salt |-> Some(salt \o <<k>>), chunk |-> Some(chunks[k])],
                        meta |-> DefaultPayloadOutMeta])]

\* the loop over the chunks lo..hi, entered with `prev`; the range is halved
\* and its left half is evaluated first
RECURSIVE ChunkPayloadsIn(_, _, _, _, _, _, _)
ChunkPayloadsIn(prev, from, salt, chunks, rnds, lo, hi) ==
  IF lo > hi THEN prev
  ELSE IF lo = hi
    THEN ChunkPayload(prev, next_id(prev.trans, rnds[lo]), from, salt, chunks, lo)
  ELSE LET mid == (lo + hi) \div 2
           left == ChunkPayloadsIn(prev, from, salt, chunks, rnds, lo, mid)
       IN IF Len(left.payloads) >= 0
            THEN ChunkPayloadsIn(left, from, salt, chunks, rnds, mid + 1, hi)
            ELSE left

ChunkPayloads(tr, from, salt, chunks, rnds, k) ==
  ChunkPayloadsIn([trans |-> tr, payloads |-> <<>>], from, salt, chunks, rnds, 1, k)

ShuttleTtl == 600 * 1000

\* PUT_SHUTTLES .retain (|_, (created, _)| now as u64 - *created < 600 * 1000)
RetainShuttles(shuttles) ==
  [ptr \in {q \in DOMAIN shuttles : now - shuttles[q].created < ShuttleTtl} |-> shuttles[ptr]]

split_and_put_unchecked(tr, shuttles, from, seed, salt, data, h, rnds) ==
  LET chunks == SplitChunks(seed, salt, SubSeq(data, 1, Min(Len(data), ChunkSize)))
      built == ChunkPayloads(tr, from, salt, chunks, rnds, Len(chunks))
  IN [trans |-> [built.trans EXCEPT !.packages =
                    Append(@, [payloads |-> built.payloads, to |-> ToKey(seed, h)])],
      shuttles |-> RetainShuttles(shuttles)]

\* split_and_put: the Trans registry and the shuttles after LtCommand::Put
split_and_put(tr, shuttles, from, seed, salt, data, h, rnds) ==
  LET chunks == SplitChunks(seed, salt, data) IN
  IF chunks = <<>> THEN [trans |-> tr, shuttles |-> shuttles]
  ELSE LET built == ChunkPayloads(tr, from, salt, chunks, rnds, Len(chunks))
       IN [trans |-> [built.trans EXCEPT !.packages =
                         Append(@, [payloads |-> built.payloads, to |-> ToKey(seed, h)])],
           shuttles |-> RetainShuttles(shuttles)]

\* dht_get fills a zeroed pkbuf with the key derived from the seed
DhtGetPk(seed, pk) == IF pk = ZeroKey THEN DerivedPk(seed) ELSE pk

\* Vec::resize_default
Resize(chunks, n) ==
  SubSeq([i \in 1..n |-> IF i <= Len(chunks) THEN chunks[i] ELSE DefaultChunkGetsEntry], 1, n)

Before_oldest(ca, cb) == ca.restarted < cb.restarted

\* fn ordering: missing payloads first, then the oldest `restarted` first
Before(ca, cb) ==
  IF IsNone(ca.payload) # IsNone(cb.payload) THEN IsNone(ca.payload)
  ELSE ca.restarted < cb.restarted

\* slot j comes before slot i in the (stable) sorted_by: it orders before it,
\* or they order alike and j has the smaller index
Precedes(chunks, j, i) ==
  Before(chunks[j], chunks[i]) \/ (~Before(chunks[i], chunks[j]) /\ j < i)

\* the 1-based chunk indexes in the order of the sorted_by
SortedOrder(chunks) ==
  LET rank == [i \in 1..Len(chunks) |->
                 Cardinality({j \in 1..Len(chunks) : Precedes(chunks, j, i)}) + 1]
  IN SubSeq([p \in 1..Len(chunks) |-> CHOOSE i \in 1..Len(chunks) : rank[i] = p],
            1, Len(chunks))

GetsPeriod == 4
GetsOpsLimit == 10

\* the retry loop of get_pieces_scheduler_en over the sorted chunk slots
\* the body of the loop for the slot idx, entered with `st`
GetSlot(seed, salt, idx, st) ==
  IF now - st.chunks[idx].restarted < GetsPeriod \/ Ops(st.rl, seed) > GetsOpsLimit
    THEN st
    ELSE [chunks |-> [st.chunks EXCEPT ![idx].restarted = now],
          rl |-> RatelimBump(st.rl, seed),
          pk |-> DhtGetPk(seed, st.pk),
          gets |-> st.gets \cup {<<DhtGetPk(seed, st.pk), salt \o <<idx>> >>}]

\* the loop over order[lo..hi]; the range is halved and its left half is
\* evaluated first
RECURSIVE GetLoopIn(_, _, _, _, _, _)
GetLoopIn(seed, salt, order, lo, hi, st) ==
  IF lo > hi THEN st
  ELSE IF lo = hi THEN GetSlot(seed, salt, order[lo], st)
  ELSE LET mid == (lo + hi) \div 2
           left == GetLoopIn(seed, salt, order, lo, mid, st)
       IN IF Len(left.chunks) >= 0
            THEN GetLoopIn(seed, salt, order, mid + 1, hi, left)
            ELSE left

GetLoop(n, seed, salt, order, k, chunks, rl, acc) ==
  GetLoopIn(seed, salt, order, k, Len(order),
            [chunks |-> chunks, rl |-> rl, pk |-> acc.pk, gets |-> acc.gets])

\* chunks.iter().any (|chunk| chunk.payload.is_none()), negated
AllPresent(chunks) == \A i \in 1..Len(chunks) : IsSome(chunks[i].payload)
Reassemble_first(chunks) == IF Len(chunks) = 0 THEN <<>> ELSE Unwrap(chunks[1].payload)

\* for chunk in chunks {for &byte in chunk.payload {buf.push (byte)}}
Reassemble(chunks) == ConcatAll([i \in 1..Len(chunks) |-> Unwrap(chunks[i].payload)], Len(chunks))

\* get_pieces_scheduler_en, "Reassemble the value": with the retry loop's
\* result `loop` on the entry `en2`
SchedulerReassemble_quiet(salt, en2, loop, fetched) ==
  IF ~AllPresent(en2.chunks)
    THEN [en |-> en2, rl |-> loop.rl, fetched |-> fetched, gets |-> loop.gets, notify |-> {}]
    ELSE [en |-> [en2 EXCEPT !.reassembled_at = IF IsNone(@) THEN Some(now) ELSE @],
          rl |-> loop.rl,
          fetched |-> MapPut(fetched, salt, <<now, Reassemble(en2.chunks)>>),
          gets |-> loop.gets,
          notify |-> {}]

SchedulerReassemble(salt, en2, loop, fetched) ==
  IF ~AllPresent(en2.chunks)
    THEN [en |-> en2, rl |-> loop.rl, fetched |-> fetched, gets |-> loop.gets, notify |-> {}]
    ELSE [en |-> [en2 EXCEPT !.reassembled_at = IF IsNone(@) THEN Some(now) ELSE @],
          rl |-> loop.rl,
          fetched |-> MapPut(fetched, salt, <<now, Reassemble(en2.chunks)>>),
          gets |-> loop.gets,
          notify |-> {en2.futures[fr] : fr \in DOMAIN en2.futures}]

\* get_pieces_scheduler_en, "gets.get_mut().pk = Some (pk)"
SchedulerRetried(salt, en1, loop, fetched) ==
  SchedulerReassemble(salt, [en1 EXCEPT !.chunks = loop.chunks, !.pk = Some(loop.pk)], loop, fetched)

\* get_pieces_scheduler_en, "Go over the chunks and see if it's time to maybe
\* retry fetching some of them", on the resized entry `en1`
SchedulerRetry(n, seed, salt, en1, rl1, fetched) ==
  SchedulerRetried(salt, en1,
                   GetLoop(n, seed, salt, SortedOrder(en1.chunks), 1, en1.chunks, rl1,
                           [pk |-> IF IsSome(en1.pk) THEN Unwrap(en1.pk) ELSE ZeroKey,
                            gets |-> {}]),
                   fetched)

\* get_pieces_scheduler_en on the entry `en` of `salt`: the entry, the rate
\* limiter and the fetched cache afterwards, the dht_get requests submitted
\* and the tasks notified
get_pieces_scheduler_en(n, seed, salt, en, rl, fetched) ==
  SchedulerRetry(n, seed, salt,
                 IF IsSome(en.number_of_chunks)
                   THEN [en EXCEPT !.chunks = Resize(@, Unwrap(en.number_of_chunks))]
                   ELSE en,
                 ratelim_maintenance(rl, seed), fetched)

Notify(tasks) ==
  [f \in 1..Len(futures) |-> IF f \in tasks THEN [futures[f] EXCEPT !.notified = TRUE] ELSE futures[f]]


\* What one iteration of the dht_thread loop works on: the shared maps it
\* locks, its own registry, and what it has handed to libtorrent so far.
SchedState(n) ==
  [trans |-> trans[n], gets |-> gets[n], fetched |-> recently_fetched[n],
   rl |-> RATELIM[n], shuttles |-> PUT_SHUTTLES[n],
   requests |-> {}, puts |-> {}, packets |-> {}, calls |-> {}, notify |-> {},
   status |-> "running"]

\* Ok (LtCommand::Put {..}) => split_and_put (..)
on_put(st, n, c, rnds) ==
  LET r == split_and_put(st.trans, st.shuttles, thread[n].our_public_key,
                         c.seed, c.salt, c.payload, c.send_handler, rnds)
  IN [st EXCEPT !.trans = r.trans, !.shuttles = r.shuttles]

\* get_pieces_scheduler
get_pieces_scheduler(st, n, c) ==
  IF ~HasKey(st.gets, c.salt)
    THEN \* Entry::Vacant: fetch the first chunk
         [st EXCEPT !.gets = MapPut(@, c.salt,
                       [pk |-> Some(DhtGetPk(c.seed, ZeroKey)),
                        reassembled_at |-> None,
                        number_of_chunks |-> None,
                        chunks |-> <<[restarted |-> now, seq_auth |-> 0, payload |-> None]>>,
                        futures |-> MapPut(EmptyMap, c.frid, c.task)]),
                    !.requests = @ \cup {<<DhtGetPk(c.seed, ZeroKey), c.salt \o <<1>> >>},
                    !.calls = @ \cup {GetCall(n, c.seed, c.salt \o <<1>>)}]
    ELSE \* Entry::Occupied
         LET en == [st.gets[c.salt] EXCEPT !.futures = MapPut(@, c.frid, c.task)]
             r == get_pieces_scheduler_en(n, c.seed, c.salt, en, st.rl, st.fetched)
         IN [st EXCEPT !.gets = MapPut(@, c.salt, r.en),
                       !.rl = r.rl,
                       !.fetched = r.fetched,
                       !.requests = @ \cup r.gets,
                       !.notify = @ \cup r.notify,
                       !.calls = @ \cup {GetCall(n, c.seed, g[2]) : g \in r.gets}]

\* Ok (LtCommand::Get {..}) => {assert_eq! (seed, our_public_key); get_pieces_scheduler (..)}
on_get(st, n, c) ==
  IF c.seed # thread[n].our_public_key
    THEN [st EXCEPT !.status = "panicked"]
    ELSE get_pieces_scheduler(st, n, c)

\* GetsEntry::drop_get
drop_get_all(en, frid) == [en EXCEPT !.futures = EmptyMap]

drop_get(en, frid) == [en EXCEPT !.futures = [fr \in (DOMAIN @) \ {frid} |-> @[fr]]]

\* Ok (LtCommand::DropGet {salt, frid}) => ..
on_drop_get(st, c) ==
  IF HasKey(st.gets, c.salt)
    THEN [st EXCEPT !.gets = MapPut(@, c.salt, drop_get(@[c.salt], c.frid))]
    ELSE st

\* Ok (LtCommand::Ping {endpoint}) => pingʹ (&ctx, our_public_key, endpoint, None)
on_ping(st, n, c, rnd) ==
  [st EXCEPT !.trans = ping_prime(@, thread[n].our_public_key, c.endpoint, None, rnd)]

(***************************************************************************)
(* The dht_thread: transmit, the retransmit pass over trans.packages.      *)
(***************************************************************************)
Packet(n, endpoint, mm) == [src |-> EndpointOf[n], dst |-> endpoint, mm |-> mm]

\* `ping` hands the packet to lt_send_udp unless the payload is too large
PingFits(mm) == ExtraPayloadSize(mm) <= MaxExtraPayload

RECURSIVE RemoveIndexes(_, _, _)
RemoveIndexes(seq, idxs, k) ==
  IF k > Len(seq) THEN <<>>
  ELSE (IF k \in idxs THEN <<>> ELSE <<seq[k]>>) \o RemoveIndexes(seq, idxs, k + 1)

TransmitAddr_keep(n, pkg, udp_ok) ==
  LET Handeds == {ix \in 1..Len(pkg.payloads) :
                    /\ pkg.payloads[ix].meta.pongs = 0
                    /\ pkg.payloads[ix].meta.pings # U8Max
                    /\ PingFits(pkg.payloads[ix].mm)}
  IN [payloads |-> [ix \in 1..Len(pkg.payloads) |->
                      IF ix \in Handeds /\ udp_ok
                        THEN [pkg.payloads[ix] EXCEPT !.meta.pings = @ + 1]
                        ELSE pkg.payloads[ix]],
      packets |-> IF udp_ok THEN {Packet(n, pkg.to.endpoint, pkg.payloads[ix].mm) : ix \in Handeds} ELSE {},
      calls |-> {UdpCall(n, pkg.to.endpoint, pkg.payloads[ix].mm) : ix \in Handeds}]

\* Either::Right (ref endpoint): discovery pings and pongs
TransmitAddr(n, pkg, udp_ok) ==
  LET Due(ix) == pkg.payloads[ix].meta.pongs = 0 /\ pkg.payloads[ix].meta.pings # U8Max
      Handed(ix) == Due(ix) /\ PingFits(pkg.payloads[ix].mm)
      payloads1 == [ix \in 1..Len(pkg.payloads) |->
                      IF Handed(ix) /\ udp_ok
                        THEN [pkg.payloads[ix] EXCEPT !.meta.pings = @ + 1]
                        ELSE pkg.payloads[ix]]
      finished == {ix \in 1..Len(pkg.payloads) : Due(ix) /\ pkg.payloads[ix].mm.pong = 1}
      Handeds == {ix \in 1..Len(pkg.payloads) : Handed(ix)}
  IN [payloads |-> RemoveIndexes(payloads1, finished, 1),
      packets |-> IF udp_ok THEN {Packet(n, pkg.to.endpoint, pkg.payloads[ix].mm) : ix \in Handeds} ELSE {},
      calls |-> {UdpCall(n, pkg.to.endpoint, pkg.payloads[ix].mm) : ix \in Handeds}]

DirectOpsLimit == 33
PutPeriod == 20
PutOpsLimit == 10
PutRetryOpsLimit == 1

\* the payloads the direct loop passes over, with the rate limiter at `ops`
DirectSkip_unlimited(p, ops) == p.meta.pongs # 0 \/ p.meta.pings = U8Max

DirectSkip(p, ops) ==
  \/ p.meta.pongs # 0
  \/ p.meta.pings = U8Max
  \/ ops > DirectOpsLimit

\* the payloads the dht_put loop passes over before it looks at their salts
PutSkip_hasty(p, ops) ==
  \/ ops > PutOpsLimit
  \/ (p.meta.dht_put_invoked > 0 /\ ops > PutRetryOpsLimit)

PutSkip(p, ops) ==
  \/ now - p.meta.dht_put_invoked < PutPeriod
  \/ ops > PutOpsLimit
  \/ (p.meta.dht_put_invoked > 0 /\ ops > PutRetryOpsLimit)

\* the direct pings of a package to the endpoints of a friend, endpoint by
\* endpoint and payload by payload
RECURSIVE DirectLoop(_, _, _, _, _, _, _, _)
DirectLoop(n, seed, eps, e, ix, udp_ok, payloads, acc) ==
  IF e > Len(eps) THEN [payloads |-> payloads, rl |-> acc.rl, packets |-> acc.packets, calls |-> acc.calls]
  ELSE IF ix > Len(payloads) THEN DirectLoop(n, seed, eps, e + 1, 1, udp_ok, payloads, acc)
  ELSE LET p == payloads[ix] IN
       IF DirectSkip(p, Ops(acc.rl, seed))
         THEN DirectLoop(n, seed, eps, e, ix + 1, udp_ok, payloads, acc)
       ELSE IF ~PingFits(p.mm)
         THEN DirectLoop(n, seed, eps, e, ix + 1, udp_ok, payloads, acc)
       ELSE IF ~udp_ok
         THEN DirectLoop(n, seed, eps, e, ix + 1, udp_ok, payloads,
                         [acc EXCEPT !.calls = @ \cup {UdpCall(n, eps[e], p.mm)}])
       ELSE DirectLoop(n, seed, eps, e, ix + 1, udp_ok,
                       [payloads EXCEPT ![ix].meta.pings = @ + 1],
                       [rl |-> RatelimBump(acc.rl, seed),
                        packets |-> acc.packets \cup {Packet(n, eps[e], p.mm)},
                        calls |-> acc.calls \cup {UdpCall(n, eps[e], p.mm)}])

\* the address of a freshly allocated PutShuttle: not that of a live one
FreshPtr(shuttles) == CHOOSE q \in 1..(Cardinality(DOMAIN shuttles) + 1) : q \notin DOMAIN shuttles

\* the dht_put loop of a package
RECURSIVE PutLoop(_, _, _, _, _)
PutLoop(n, seed, ix, payloads, acc) ==
  IF ix > Len(payloads) THEN [payloads |-> payloads, rl |-> acc.rl, shuttles |-> acc.shuttles,
                              puts |-> acc.puts, calls |-> acc.calls]
  ELSE LET p == payloads[ix] IN
       IF \/ PutSkip(p, Ops(acc.rl, seed))
          \/ IsNone(p.mm.salt)
          \/ IsNone(p.mm.chunk)
         THEN PutLoop(n, seed, ix + 1, payloads, acc)
         ELSE LET ptr == FreshPtr(acc.shuttles)
                  salt == Unwrap(p.mm.salt)
              IN PutLoop(n, seed, ix + 1,
                         [payloads EXCEPT ![ix].meta.dht_put_invoked = now],
                         [rl |-> RatelimBump(acc.rl, seed),
                          shuttles |-> MapPut(acc.shuttles, ptr,
                                        [created |-> now, seed |-> seed, chunk |-> Unwrap(p.mm.chunk)]),
                          puts |-> acc.puts \cup {[ptr |-> ptr, created |-> now, seed |-> seed,
                                                   salt |-> salt, invoked |-> 0]},
                          calls |-> acc.calls \cup {PutCall(n, seed, salt, ptr)}])

RECURSIVE SelectIn(_, _, _)
SelectIn(seq, set, k) ==
  IF k > Len(seq) THEN <<>>
  ELSE (IF seq[k] \in set THEN <<seq[k]>> ELSE <<>>) \o SelectIn(seq, set, k + 1)

\* what the key branch leaves after its direct pings and its DHT puts
TransmitKeyResult(direct, put) ==
  [payloads |-> put.payloads, skipped |-> FALSE, rl |-> put.rl, shuttles |-> put.shuttles,
   packets |-> direct.packets, puts |-> put.puts, calls |-> direct.calls \cup put.calls]

\* the dht_put loop of the key branch, after the direct pings left `direct`
TransmitKeyPut(n, seed, direct, shuttles) ==
  TransmitKeyResult(direct,
                    PutLoop(n, seed, 1, direct.payloads,
                            [rl |-> direct.rl, shuttles |-> shuttles, puts |-> {}, calls |-> {}]))

\* the branch of a package whose SendHandler upgrades: direct pings, then DHT puts
TransmitKeyAlive(n, pkg, friends, ep_order, udp_ok, acc) ==
  TransmitKeyPut(n, pkg.to.seed,
                 DirectLoop(n, pkg.to.seed,
                            IF HasKey(friends, pkg.to.seed)
                              THEN SelectIn(ep_order, friends[pkg.to.seed], 1) ELSE <<>>,
                            1, 1, udp_ok, pkg.payloads,
                            [rl |-> ratelim_maintenance(acc.rl, pkg.to.seed),
                             packets |-> {}, calls |-> {}]),
                 acc.shuttles)

TransmitKey_ignore_handler(n, pkg, friends, ep_order, udp_ok, acc) ==
  TransmitKeyAlive(n, pkg, friends, ep_order, udp_ok, acc)

\* Either::Left ((seed, ref send_handler)): the chunks of a send
TransmitKey(n, pkg, friends, ep_order, udp_ok, acc) ==
  IF ~Upgrades(pkg.to.send_handler)
    THEN [payloads |-> pkg.payloads, skipped |-> TRUE, rl |-> acc.rl, shuttles |-> acc.shuttles,
          packets |-> {}, puts |-> {}, calls |-> {}]
    ELSE TransmitKeyAlive(n, pkg, friends, ep_order, udp_ok, acc)

\* what the endpoint branch leaves
TransmitAddrResult(a, acc) ==
  [payloads |-> a.payloads, skipped |-> FALSE, rl |-> acc.rl, shuttles |-> acc.shuttles,
   packets |-> a.packets, puts |-> {}, calls |-> a.calls]

\* match package.to
TransmitPackage(n, pkg, friends, ep_order, udp_ok, acc) ==
  IF pkg.to.either = "Right"
    THEN TransmitAddrResult(TransmitAddr(n, pkg, udp_ok), acc)
    ELSE TransmitKey(n, pkg, friends, ep_order, udp_ok, acc)

\* the end of the loop body: the finished payloads and the empty package go
TransmitStep(acc, pix, r) ==
  [packages |-> IF ~r.skipped /\ r.payloads = <<>>
                  THEN RemoveIndexes(acc.packages, {pix}, 1)
                  ELSE [acc.packages EXCEPT ![pix].payloads = r.payloads],
   rl |-> r.rl, shuttles |-> r.shuttles,
   packets |-> acc.packets \cup r.packets,
   puts |-> acc.puts \cup r.puts,
   calls |-> acc.calls \cup r.calls]

\* the loop of transmit over the packages pix, pix - 1, .. 1
RECURSIVE TransmitLoop(_, _, _, _, _, _)
TransmitLoop(n, pix, friends, ep_order, udp_ok, acc) ==
  IF pix = 0 THEN acc
  ELSE TransmitLoop(n, pix - 1, friends, ep_order, udp_ok,
                    TransmitStep(acc, pix,
                                 TransmitPackage(n, acc.packages[pix], friends, ep_order,
                                                 udp_ok, acc)))

\* the scheduler state after the pass left `r`
TransmitMerge(st, r) ==
  [st EXCEPT !.trans.packages = r.packages,
             !.rl = r.rl,
             !.shuttles = r.shuttles,
             !.packets = @ \cup r.packets,
             !.puts = @ \cup r.puts,
             !.calls = @ \cup r.calls]

\* transmit (&mut dugout, &ctx); ep_order is the iteration order of the
\* endpoints map, udp_ok tells whether lt_send_udp reports no error
transmit(st, n, ep_order, udp_ok) ==
  TransmitMerge(st,
                TransmitLoop(n, Len(st.trans.packages), st.trans.friends, ep_order, udp_ok,
                             [packages |-> st.trans.packages, rl |-> st.rl,
                              shuttles |-> st.shuttles, packets |-> {}, puts |-> {},
                              calls |-> {}]))

(***************************************************************************)
(* The dht_thread: the alert callback (incoming pings, DHT items).         *)
(***************************************************************************)
AtAlerts(n) == Running(n)

PongsBump_twice(packages, id) ==
  [pix \in 1..Len(packages) |->
     [packages[pix] EXCEPT !.payloads =
        [ix \in 1..Len(@) |->
           IF @[ix].mm.id = id THEN [@[ix] EXCEPT !.meta.pongs = (@ + 2) % (U8Max + 1)] ELSE @[ix]]]]

\* "Register the pong": meta.pongs += 1 on every payload with the id
PongsBump(packages, id) ==
  [pix \in 1..Len(packages) |->
     [packages[pix] EXCEPT !.payloads =
        [ix \in 1..Len(@) |->
           IF @[ix].mm.id = id THEN [@[ix] EXCEPT !.meta.pongs = (@ + 1) % (U8Max + 1)] ELSE @[ix]]]]

\* some payload with the id has pongs at u8::max_value(): `+= 1` overflows
PongsOverflow(packages, id) ==
  \E pix \in 1..Len(packages) : \E ix \in 1..Len(packages[pix].payloads) :
     /\ packages[pix].payloads[ix].mm.id = id
     /\ packages[pix].payloads[ix].meta.pongs = U8Max

\* The chunk part of incoming_ping on the registry `g`: the registry
\* afterwards and whether the chunk was written into a slot.
IncomingChunk(g, key, i_salt, i_chunk) ==
  IF Len(i_salt) < 2 THEN [gets |-> g, err |-> "short ping salt"]
  ELSE LET subject_salt == SubSeq(i_salt, 1, Len(i_salt) - 1)
           chunk_idx == i_salt[Len(i_salt)]
       IN IF chunk_idx = 0 THEN [gets |-> g, err |-> "bad chunk index"]
          ELSE IF Len(i_chunk) < 5 THEN [gets |-> g, err |-> "short ping chunk"]
          ELSE IF ~VerifyCrc(i_chunk, chunk_idx, key, subject_salt)
            THEN [gets |-> g, err |-> "bad ping chunk"]
          ELSE LET payload == ChunkBody(i_chunk)
                   en0 == IF HasKey(g, subject_salt) THEN g[subject_salt] ELSE DefaultGetsEntry
                   en1 == IF chunk_idx = 1
                            THEN [en0 EXCEPT !.number_of_chunks = Some(Head(payload))]
                            ELSE en0
                   body == IF chunk_idx = 1 THEN Tail(payload) ELSE payload
                   number_of_chunks == IF IsSome(en1.number_of_chunks)
                                         THEN Unwrap(en1.number_of_chunks) ELSE 0
               IN IF chunk_idx > number_of_chunks
                    THEN [gets |-> MapPut(g, subject_salt, en1), err |-> "ping chunk out of bounds"]
                    ELSE [gets |-> MapPut(g, subject_salt,
                                     [en1 EXCEPT !.chunks =
                                        [Resize(@, number_of_chunks) EXCEPT ![chunk_idx].payload = Some(body)]]),
                          err |-> ""]

PongsSeenBump(seen, id, src) ==
  MapPut(seen, <<id, src>>, IF HasKey(seen, <<id, src>>) THEN seen[<<id, src>>] + 1 ELSE 1)

\* incoming_ping on a decoded ping `pkt` from pkt.src; `wraps` tells whether
\* the build wraps on integer overflow (release) or panics (debug), `dup`
\* whether the network keeps a copy of the datagram to deliver again
incoming_ping(n, pkt, wraps, dup) ==
  LET mm == pkt.mm
      tr0 == trans[n]
      tr1 == IF mm.pong = 0
               THEN ping_prime(tr0, thread[n].our_public_key, pkt.src, Some(mm.id), 0)
               ELSE tr0
      tr2 == [tr1 EXCEPT !.friends =
                MapPut(@, mm.from, (IF HasKey(@, mm.from) THEN @[mm.from] ELSE {}) \cup {pkt.src})]
      overflow == mm.pong = 1 /\ PongsOverflow(tr2.packages, mm.id)
      tr3 == IF mm.pong = 1 THEN [tr2 EXCEPT !.packages = PongsBump(@, mm.id)] ELSE tr2
      chunk == IF IsSome(mm.salt) /\ IsSome(mm.chunk)
                 THEN IncomingChunk(gets[n], thread[n].our_public_key, Unwrap(mm.salt), Unwrap(mm.chunk))
                 ELSE [gets |-> gets[n], err |-> ""]
  IN
  /\ AtAlerts(n)
  /\ IF Len(mm.from) # KeyLen
       THEN \* ERR! ("Wrong `from` length in a ping")
            UNCHANGED <<trans, gets, thread, pongs_seen>>
       ELSE IF overflow /\ ~wraps
       THEN \* attempt to add with overflow
            /\ thread' = [thread EXCEPT ![n].status = "panicked"]
            /\ trans' = [trans EXCEPT ![n] = tr2]
            /\ pongs_seen' = [pongs_seen EXCEPT ![n] = PongsSeenBump(@, mm.id, pkt.src)]
            /\ UNCHANGED gets
       ELSE /\ Len(tr3.packages) <= MaxPackages
            /\ trans' = [trans EXCEPT ![n] = tr3]
            /\ gets' = [gets EXCEPT ![n] = chunk.gets]
            /\ pongs_seen' = IF mm.pong = 1
                               THEN [pongs_seen EXCEPT ![n] = PongsSeenBump(@, mm.id, pkt.src)]
                               ELSE pongs_seen
            /\ UNCHANGED thread
  /\ UNCHANGED calls
  /\ IF dup
       THEN duplicates < MaxDup /\ duplicates' = duplicates + 1 /\ UNCHANGED udp
       ELSE udp' = udp \ {pkt} /\ UNCHANGED duplicates
  /\ UNCHANGED <<now, our_public_key, cmd, send_handlers, recently_fetched, futures,
                 dht, dht_gets, dht_puts, PUT_SHUTTLES, RATELIM, ret, investigations, cd, mmctx, locks, respawned>>

MutableItem_ignore(g, key, keybuf, saltbuf, bencoded, seq, auth) == [gets |-> g, out |-> "no entry"]

\* The dht_mutable_item_alert branch of cb on the registry `g`, for an item
\* (keybuf, saltbuf, bencoded value, seq, auth); "panic" when the salt is empty.
MutableItem(g, key, keybuf, saltbuf, bencoded, seq, auth) ==
  LET chunk_salt == CStr(saltbuf) IN
  IF Len(chunk_salt) = 0 THEN [gets |-> g, out |-> "panic"]
  ELSE
  LET idx == chunk_salt[Len(chunk_salt)]
      decoded == IF bencoded = <<48, 58>> THEN Some(<<>>) ELSE bdecode(bencoded)
      salt == SubSeq(chunk_salt, 1, Len(chunk_salt) - 1)
  IN IF idx = 0 THEN [gets |-> g, out |-> "garbage"]
     ELSE IF IsNone(decoded) THEN [gets |-> g, out |-> "undecodable"]
     ELSE IF ~(HasKey(g, salt) /\ g[salt].pk = Some(keybuf)) THEN [gets |-> g, out |-> "no entry"]
     ELSE IF idx > Len(g[salt].chunks) THEN [gets |-> g, out |-> "out of bounds"]
     ELSE IF Len(Unwrap(decoded)) < 5 THEN [gets |-> g, out |-> "gibberish"]
     ELSE IF ~VerifyCrc(Unwrap(decoded), idx, key, salt) THEN [gets |-> g, out |-> "checksum"]
     ELSE LET payload == ChunkBody(Unwrap(decoded))
              number_of_chunks == IF idx = 1 THEN Some(Head(payload)) ELSE None
              body == IF idx = 1 THEN Tail(payload) ELSE payload
              seq_auth == seq * 2 + (IF auth THEN 1 ELSE 0)
              chunk == g[salt].chunks[idx]
          IN IF IsNone(chunk.payload) \/ seq_auth > chunk.seq_auth
               THEN [gets |-> MapPut(g, salt,
                                [g[salt] EXCEPT !.chunks[idx] = [@ EXCEPT !.seq_auth = seq_auth,
                                                                         !.payload = Some(body)],
                                                !.number_of_chunks = IF IsSome(number_of_chunks)
                                                                       THEN number_of_chunks ELSE @]),
                     out |-> "stored"]
               ELSE [gets |-> g, out |-> "stale"]

\* cb on a dht_mutable_item_alert
dht_mutable_item(n, keybuf, saltbuf, bencoded, seq, auth) ==
  /\ AtAlerts(n)
  /\ LET r == MutableItem(gets[n], thread[n].our_public_key, keybuf, saltbuf, bencoded, seq, auth)
     IN IF r.out = "panic"
          THEN /\ thread' = [thread EXCEPT ![n].status = "panicked"]
               /\ UNCHANGED gets
          ELSE /\ gets' = [gets EXCEPT ![n] = r.gets]
               /\ UNCHANGED thread
  /\ UNCHANGED calls
  /\ UNCHANGED <<now, our_public_key, cmd, trans, send_handlers, recently_fetched,
                 futures, udp, dht, dht_gets, dht_puts, PUT_SHUTTLES, RATELIM, pongs_seen,
                 ret, investigations, duplicates, cd, mmctx, locks, respawned>>

(***************************************************************************)
(* The dht_thread: the gets scheduler pass over every known subject salt.  *)
(***************************************************************************)
Orderings(S) == {o \in [1..Cardinality(S) -> S] : \A i, j \in 1..Cardinality(S) : o[i] = o[j] => i = j}

\* the pass after the scheduler returned `r` for `salt`
GetsStep(acc, salt, r) ==
  [gets |-> MapPut(acc.gets, salt, r.en), rl |-> r.rl, fetched |-> r.fetched,
   requests |-> acc.requests \cup r.gets, notify |-> acc.notify \cup r.notify]

RECURSIVE GetsLoop(_, _, _, _, _)
GetsLoop(n, seed, order, k, acc) ==
  IF k > Len(order) THEN acc
  ELSE GetsLoop(n, seed, order, k + 1,
                GetsStep(acc, order[k],
                         get_pieces_scheduler_en(n, seed, order[k], acc.gets[order[k]],
                                                 acc.rl, acc.fetched)))

\* the scheduler state after the pass left `r`
GetsMerge(st, n, seed, r) ==
  [st EXCEPT !.gets = r.gets,
             !.rl = r.rl,
             !.fetched = r.fetched,
             !.requests = @ \cup r.requests,
             !.notify = @ \cup r.notify,
             !.calls = @ \cup {GetCall(n, seed, g[2]) : g \in r.requests}]

\* for key in gets_keys {get_pieces_scheduler_en (our_public_key, ..)};
\* `order` is the iteration order of the gets map
gets_pass_as(st, n, order, key) ==
  GetsMerge(st, n, key,
            GetsLoop(n, key, order, 1,
                     [gets |-> st.gets, rl |-> st.rl, fetched |-> st.fetched,
                      requests |-> {}, notify |-> {}]))

\* the pass of the first dht_thread of the context of n
gets_pass(st, n, order) == gets_pass_as(st, n, order, thread[n].our_public_key)

(***************************************************************************)
(* The dht_thread: one iteration of its loop after the alerts have been    *)
(* pumped: at most one command, then transmit, then the gets scheduler.    *)
(***************************************************************************)
\* a chunk payload is pinged MaxChunkPings times per endpoint of the friend;
\* a payload at the retry limit stays within the bounds
PingsBound(tr, pkg) ==
  IF pkg.to.either = "Right" THEN MaxPings
  ELSE IF HasKey(tr.friends, pkg.to.seed)
    THEN MaxChunkPings * Max(1, Cardinality(tr.friends[pkg.to.seed]))
  ELSE MaxChunkPings

PingsWithin(tr) ==
  \A pix \in 1..Len(tr.packages) : \A ix \in 1..Len(tr.packages[pix].payloads) :
     LET pings == tr.packages[pix].payloads[ix].meta.pings
     IN pings <= PingsBound(tr, tr.packages[pix]) \/ pings >= U8Max - 1

\* the iterations explored: within the bounds on pings and packages
boot_step_eager(th) ==
  IF th.boot_status = "Delayed"
    THEN [th EXCEPT !.boot_status = "Bootstrapping", !.enable_dht = @ + 1]
  ELSE IF th.boot_status = "Bootstrapping"
    THEN IF th.bootstrapped > 0 THEN [th EXCEPT !.boot_status = "Bootstrapped"] ELSE th
  ELSE th

\* boot_status = match boot_status {..}: the step of the boot state machine
\* in an iteration of the loop of the dht_thread `th`, when enable_dht
\* reports no error; enable_dht counts the calls of enable_dht
boot_step(th) ==
  IF th.boot_status = "Delayed"
    THEN \* DhtDelayed::kick, DhtBootstrapping::bootstrap
         IF now > th.until
           THEN [th EXCEPT !.boot_status = "Bootstrapping", !.enable_dht = @ + 1]
           ELSE th
  ELSE IF th.boot_status = "Bootstrapping"
    THEN IF th.bootstrapped > 0 THEN [th EXCEPT !.boot_status = "Bootstrapped"] ELSE th
  ELSE th

Committable(st) ==
  /\ PingsWithin(st.trans)
  /\ Len(st.trans.packages) <= MaxPackages

\* the shared state after the iteration that left `st`
Commit(n, st) ==
  /\ Committable(st)
  /\ trans' = [trans EXCEPT ![n] = st.trans]
  /\ gets' = [gets EXCEPT ![n] = st.gets]
  /\ recently_fetched' = [recently_fetched EXCEPT ![n] = st.fetched]
  /\ RATELIM' = [RATELIM EXCEPT ![n] = st.rl]
  /\ PUT_SHUTTLES' = [PUT_SHUTTLES EXCEPT ![n] = st.shuttles]
  /\ dht_gets' = [dht_gets EXCEPT ![n] = @ \cup st.requests]
  /\ dht_puts' = [dht_puts EXCEPT ![n] = @ \cup st.puts]
  /\ udp' = udp \cup st.packets
  /\ futures' = Notify(st.notify)
  /\ thread' = [thread EXCEPT ![n] = [boot_step(@) EXCEPT !.status = st.status]]
  /\ calls' = st.calls
  /\ UNCHANGED <<now, our_public_key, send_handlers, dht, pongs_seen, ret,
                 investigations, duplicates, cd, mmctx, locks, respawned>>

\* the gets scheduler pass, in some iteration order of the gets map
IterationGets(n, tx) ==
  \E order \in Orderings(DOMAIN tx.gets) : Commit(n, gets_pass(tx, n, order))

\* the rest of the iteration once the command (if any) left `st`
Iteration(n, st, ep_order, udp_ok) ==
  IF st.status # "running" THEN Commit(n, st)
  ELSE IterationGets(n, transmit(st, n, ep_order, udp_ok))

\* what an iteration can leave behind, over the iteration orders of the gets
IterationResults(n, st, ep_order, udp_ok) ==
  IF st.status # "running" THEN {st}
  ELSE LET tx == transmit(st, n, ep_order, udp_ok)
       IN {gets_pass(tx, n, order) : order \in Orderings(DOMAIN tx.gets)}

\* the iteration that left `st` changed something outside the command queue
Differs(n, st) ==
  \/ st.trans # trans[n]
  \/ st.gets # gets[n]
  \/ st.fetched # recently_fetched[n]
  \/ st.rl # RATELIM[n]
  \/ st.shuttles # PUT_SHUTTLES[n]
  \/ ~(st.requests \subseteq dht_gets[n])
  \/ ~(st.puts \subseteq dht_puts[n])
  \/ ~(st.packets \subseteq udp)
  \/ Notify(st.notify) # futures
  \/ st.status # thread[n].status
  \/ boot_step(thread[n]) # thread[n]
  \/ st.calls # calls

\* if ctx.is_stopping() {break}, after the alerts of the iteration were pumped
LoopBreak(n) ==
  /\ Running(n)
  /\ is_stopping(n)
  /\ thread' = [thread EXCEPT ![n].status = "stopped"]
  /\ calls' = {}
  /\ UNCHANGED <<now, our_public_key, cmd, trans, send_handlers, gets,
                 recently_fetched, futures, udp, dht, dht_gets, dht_puts, PUT_SHUTTLES,
                 RATELIM, pongs_seen, ret, investigations, duplicates, cd, mmctx, locks, respawned>>

\* dht_alerts reported an error: the dht_thread logs it and returns
dht_alerts_error(n) ==
  /\ Running(n)
  /\ thread' = [thread EXCEPT ![n].status = "returned"]
  /\ calls' = {}
  /\ UNCHANGED <<now, our_public_key, cmd, trans, send_handlers, gets,
                 recently_fetched, futures, udp, dht, dht_gets, dht_puts, PUT_SHUTTLES,
                 RATELIM, pongs_seen, ret, investigations, duplicates, cd, mmctx, locks, respawned>>

\* cb on a dht_bootstrap_alert: *cbctx.bootstrapped = now_float()
bootstrap_alert(n) ==
  /\ AtAlerts(n)
  /\ thread' = [thread EXCEPT ![n].bootstrapped = now]
  /\ UNCHANGED calls
  /\ UNCHANGED <<now, our_public_key, cmd, trans, send_handlers, gets,
                 recently_fetched, futures, udp, dht, dht_gets, dht_puts, PUT_SHUTTLES,
                 RATELIM, pongs_seen, ret, investigations, duplicates, cd, mmctx, locks, respawned>>

\* DhtDelayed::kick past the deadline, with enable_dht reporting an error:
\* Either::Right (Err (err)) => {log! ((err)); return}
enable_dht_error(n) ==
  /\ Running(n)
  /\ ~is_stopping(n)
  /\ thread[n].boot_status = "Delayed"
  /\ now > thread[n].until
  /\ thread' = [thread EXCEPT ![n].status = "returned", ![n].enable_dht = @ + 1]
  /\ calls' = {}
  /\ UNCHANGED <<now, our_public_key, cmd, trans, send_handlers, gets,
                 recently_fetched, futures, udp, dht, dht_gets, dht_puts, PUT_SHUTTLES,
                 RATELIM, pongs_seen, ret, investigations, duplicates, cd, mmctx, locks, respawned>>

AtCmd(n, op) ==
  /\ Running(n)
  /\ ~is_stopping(n)
  /\ cmd[n] # <<>>
  /\ Head(cmd[n]).op = op

LoopPut(n, rnds, ep_order, udp_ok) ==
  /\ AtCmd(n, "Put")
  /\ cmd' = [cmd EXCEPT ![n] = Tail(@)]
  /\ Iteration(n, on_put(SchedState(n), n, Head(cmd[n]), rnds), ep_order, udp_ok)

LoopGet(n, ep_order, udp_ok) ==
  /\ AtCmd(n, "Get")
  /\ cmd' = [cmd EXCEPT ![n] = Tail(@)]
  /\ Iteration(n, on_get(SchedState(n), n, Head(cmd[n])), ep_order, udp_ok)

LoopDropGet(n, ep_order, udp_ok) ==
  /\ AtCmd(n, "DropGet")
  /\ cmd' = [cmd EXCEPT ![n] = Tail(@)]
  /\ Iteration(n, on_drop_get(SchedState(n), Head(cmd[n])), ep_order, udp_ok)

LoopPing(n, rnd, ep_order, udp_ok) ==
  /\ AtCmd(n, "Ping")
  /\ cmd' = [cmd EXCEPT ![n] = Tail(@)]
  /\ Iteration(n, on_ping(SchedState(n), n, Head(cmd[n]), rnd), ep_order, udp_ok)

\* Err (channel::RecvTimeoutError::Timeout) => {}
LoopTimeout(n, ep_order, udp_ok) ==
  /\ Running(n)
  /\ ~is_stopping(n)
  /\ cmd[n] = <<>>
  /\ UNCHANGED cmd
  /\ Iteration(n, SchedState(n), ep_order, udp_ok)

(***************************************************************************)
(* libtorrent: the put callback, and the passing of time.                  *)
(***************************************************************************)
\* what the DHT holds under (pk, salt): the bencoded value and its sequence number
DhtHave(key) == IF HasKey(dht, key) THEN dht[key] ELSE [v |-> <<48, 58>>, seq |-> 0]

put_handler_keep(shuttle, have) == have

\* PutShuttle::put_handler as built by transmit: the fresh bencoded chunk
put_handler(shuttle, have) == bencode(shuttle.chunk)

\* put_callback (arg, arg2, have, .., seq), invoked by libtorrent for a dht_put
\* explored while the callback of the dht_put was invoked fewer than `limit`
\* times; handler_ok tells whether the put_handler returns Ok
put_callback_of(n, req, limit, handler_ok) ==
  /\ req \in dht_puts[n]
  /\ req.invoked < limit
  /\ dht_puts' = [dht_puts EXCEPT ![n] = (@ \ {req}) \cup {[req EXCEPT !.invoked = @ + 1]}]
  /\ LET shuttles == PUT_SHUTTLES[n]
         key == <<DerivedPk(req.seed), req.salt>>
         have == DhtHave(key)
     IN IF ~(HasKey(shuttles, req.ptr) /\ shuttles[req.ptr].created = req.created)
          THEN \* panic! ("No such shuttle")
               /\ thread' = [thread EXCEPT ![n].status = "panicked"]
               /\ UNCHANGED <<dht, RATELIM>>
          ELSE IF handler_ok
          THEN /\ dht' = MapPut(dht, key, [v |-> put_handler(shuttles[req.ptr], have.v),
                                           seq |-> have.seq + 1])
               /\ RATELIM' = [RATELIM EXCEPT ![n] = RatelimBump(@, req.seed)]
               /\ UNCHANGED thread
          ELSE \* Err (err): *benload = slice_to_malloc (have), seq untouched
               /\ dht' = MapPut(dht, key, [v |-> have.v, seq |-> have.seq])
               /\ UNCHANGED <<RATELIM, thread>>
  /\ UNCHANGED calls
  /\ UNCHANGED <<now, our_public_key, cmd, trans, send_handlers, gets, recently_fetched,
                 futures, udp, dht_gets, PUT_SHUTTLES, pongs_seen, ret, investigations, duplicates, cd, mmctx, locks, respawned>>

put_callback(n, req) == put_callback_of(n, req, MaxCallbacks, TRUE)

\* d seconds pass, explored up to the time `limit`
TickWithin(d, limit) ==
  /\ d > 0
  /\ now + d <= limit
  /\ now' = now + d
  /\ UNCHANGED calls
  /\ UNCHANGED <<our_public_key, thread, cmd, trans, send_handlers, gets,
                 recently_fetched, futures, udp, dht, dht_gets, dht_puts, PUT_SHUTTLES,
                 RATELIM, pongs_seen, ret, investigations, duplicates, cd, mmctx, locks, respawned>>

(***************************************************************************)
(* The swarm: A sends to B, B receives; the network delivers what was      *)
(* sent, in any order, any number of times or never.                       *)
(***************************************************************************)
Subject1 == <<115, 49>>

Senders == {"A"}
Receivers == {"B"}
Peer(n) == IF n = "A" THEN "B" ELSE "A"
SendPayloads == {TwoChunks}
Tick(d) == TickWithin(d, MaxNow)

TickSteps == {1, GetsPeriod}

\* both nodes have been initialized with their keys
Init ==
  /\ ProtoInit
  /\ cd = CodecIdle

Started ==
  /\ now = StartTime
  /\ our_public_key = KeyOf
  /\ thread = [n \in Node |-> [status |-> "running", our_public_key |-> KeyOf[n],
                                stop |-> FALSE, on_stop |-> TRUE,
                                boot_status |-> "Bootstrapped", until |-> StartTime,
                                bootstrapped |-> StartTime, enable_dht |-> 1]]
  /\ cmd = [n \in Node |-> <<>>]
  /\ trans = [n \in Node |-> DefaultTransMeta]
  /\ send_handlers = <<>>
  /\ gets = [n \in Node |-> EmptyMap]
  /\ recently_fetched = [n \in Node |-> EmptyMap]
  /\ futures = <<>>
  /\ udp = {}
  /\ dht = EmptyMap
  /\ dht_gets = [n \in Node |-> {}]
  /\ dht_puts = [n \in Node |-> {}]
  /\ PUT_SHUTTLES = [n \in Node |-> EmptyMap]
  /\ RATELIM = [n \in Node |-> EmptyMap]
  /\ calls = {}
  /\ pongs_seen = [n \in Node |-> EmptyMap]
  /\ ret = Ret("initialize", "B", "Ok")
  /\ investigations = 0
  /\ duplicates = 0
  /\ mmctx = MmCtxNew
  /\ locks = LocksFree
  /\ respawned = NoRespawn
  /\ cd = CodecIdle

IdsNeeded(n) ==
  IF cmd[n] # <<>> /\ Head(cmd[n]).op = "Put"
    THEN Min(NumberOfChunks(Len(Head(cmd[n]).payload)), max_chunks)
    ELSE 0

\* the iteration orders of the endpoints n has on record
EpOrders(n) ==
  Orderings(UNION {trans[n].friends[k] : k \in DOMAIN trans[n].friends})
\* the builds that differ on the ping: overflow panics in debug, wraps in release
Builds(n, pkt) ==
  IF pkt.mm.pong = 1 /\ PongsOverflow(trans[n].packages, pkt.mm.id) THEN BOOLEAN ELSE {TRUE}
\* the `auth` flag libtorrent reports with an item
AuthValues == {TRUE}
UdpOutcomes == {TRUE}

Send == \E n \in Senders : \E p \in SendPayloads : send(n, KeyOf[Peer(n)], Subject1, p)
DropSend == \E h \in 1..Len(send_handlers) : DropSendHandler(h)
Recv == \E n \in Receivers : recv(n, Subject1, "always_true")
Poll == \E f \in 1..Len(futures) : \E frid \in Frids : poll(f, frid)
DropRecv == \E f \in 1..Len(futures) : DropRecvFuture(f)
Investigate == \E n \in Senders : investigate_peer(n, EndpointOf[Peer(n)])
Put ==
  \E n \in Node : \E rnds \in [1..IdsNeeded(n) -> Rand48] :
     \E o \in EpOrders(n) : \E ok \in UdpOutcomes : LoopPut(n, rnds, o, ok)
Get == \E n \in Node : \E o \in EpOrders(n) : \E ok \in UdpOutcomes : LoopGet(n, o, ok)
DropGet == \E n \in Node : \E o \in EpOrders(n) : \E ok \in UdpOutcomes : LoopDropGet(n, o, ok)
PingCmd ==
  \E n \in Node : \E rnd \in Rand48 :
     \E o \in EpOrders(n) : \E ok \in UdpOutcomes : LoopPing(n, rnd, o, ok)
Timeout == \E n \in Node : \E o \in EpOrders(n) : \E ok \in UdpOutcomes : LoopTimeout(n, o, ok)
IncomingPing ==
  \E n \in Node : \E pkt \in udp : \E wraps \in Builds(n, pkt) :
     pkt.dst = EndpointOf[n] /\ incoming_ping(n, pkt, wraps, FALSE)
\* the network delivers a datagram and keeps a copy of it
DuplicatedPing ==
  \E n \in Node : \E pkt \in udp : \E wraps \in Builds(n, pkt) :
     pkt.dst = EndpointOf[n] /\ incoming_ping(n, pkt, wraps, TRUE)
DhtItem ==
  \E n \in Node : \E g \in dht_gets[n] : \E auth \in AuthValues :
     /\ HasKey(dht, g)
     /\ dht_mutable_item(n, g[1], g[2], dht[g].v, dht[g].seq, auth)
PutCallback == \E n \in Node : \E req \in dht_puts[n] : put_callback(n, req)
Time == \E d \in TickSteps : Tick(d)

\* one iteration of the loop of the dht_thread of n
LoopOf(n) ==
  \E o \in EpOrders(n) : \E ok \in UdpOutcomes :
     \/ \E rnds \in [1..IdsNeeded(n) -> Rand48] : LoopPut(n, rnds, o, ok)
     \/ LoopGet(n, o, ok)
     \/ LoopDropGet(n, o, ok)
     \/ \E rnd \in Rand48 : LoopPing(n, rnd, o, ok)
     \/ LoopTimeout(n, o, ok)

(***************************************************************************)
(* Discovery: A investigates the endpoint of B; pings and pongs only.      *)
(***************************************************************************)
NextDiscovery ==
  Investigate \/ PingCmd \/ Timeout \/ IncomingPing \/ DuplicatedPing \/ Time

SpecDiscovery == Started /\ [][NextDiscovery]_vars

\* the network delivers `pkt` to n, once or with a copy kept
Delivers(n, pkt) ==
  /\ pkt.dst = EndpointOf[n]
  /\ \E wraps \in BOOLEAN : \E dup \in BOOLEAN : incoming_ping(n, pkt, wraps, dup)

\* C4: every well-formed incoming ping with pong = 0 enqueues exactly one
\* package, of exactly one payload, with pong = 1 and the id of the ping,
\* destined to the socket address the ping came from.
PingIsPongedOnce ==
  [][\A n \in Node : \A pkt \in udp :
       (pkt.mm.pong = 0 /\ Len(pkt.mm.from) = KeyLen /\ Delivers(n, pkt))
       => /\ Len(trans'[n].packages) = Len(trans[n].packages) + 1
          /\ SubSeq(trans'[n].packages, 1, Len(trans[n].packages)) = trans[n].packages
          /\ LET p == trans'[n].packages[Len(trans'[n].packages)] IN
             /\ p.to = ToAddr(pkt.src)
             /\ Len(p.payloads) = 1
             /\ p.payloads[1].mm.pong = 1
             /\ p.payloads[1].mm.id = pkt.mm.id]_vars

\* B holds the pong of the discovery ping of A, not yet transmitted
PongEnqueued ==
  /\ Len(trans["B"].packages) = 1
  /\ trans["B"].packages[1].to = ToAddr(EndpointOf["A"])
  /\ Len(trans["B"].packages[1].payloads) = 1
  /\ trans["B"].packages[1].payloads[1].mm.pong = 1
  /\ trans["B"].packages[1].payloads[1].mm.id = <<1, 0>>
  /\ trans["B"].packages[1].payloads[1].meta.pings = 0

\* the payloads of the registry `tr` that are pongs
PongPayloads(tr) ==
  {<<pix, ix>> \in (1..Len(tr.packages)) \X (1..MaxPackages) :
     ix <= Len(tr.packages[pix].payloads) /\ tr.packages[pix].payloads[ix].mm.pong = 1}

\* the packages and payloads of a registry, the metas set aside
Shapes(tr) ==
  [pix \in 1..Len(tr.packages) |->
     [to |-> tr.packages[pix].to,
      mms |-> [ix \in 1..Len(tr.packages[pix].payloads) |-> tr.packages[pix].payloads[ix].mm]]]

\* C5: pongs are terminal.  An incoming ping with pong = 1 enqueues no
\* package; a pong payload in a registry has never been handed to the UDP
\* send, for the transmit pass that hands it over removes it, and its
\* package with it when that leaves the package empty.
PongsAreTerminal ==
  /\ [](\A n \in Node :
          /\ \A pp \in PongPayloads(trans[n]) :
               trans[n].packages[pp[1]].payloads[pp[2]].meta.pings = 0
          /\ \A pix \in 1..Len(trans[n].packages) : trans[n].packages[pix].payloads # <<>>)
  /\ [][\A n \in Node :
          /\ \A pkt \in udp :
               (pkt.mm.pong = 1 /\ Delivers(n, pkt)) => Shapes(trans'[n]) = Shapes(trans[n])
          /\ LoopOf(n) =>
               \A pp \in PongPayloads(trans[n]) :
                  LET pkg == trans[n].packages[pp[1]]
                      pl == pkg.payloads[pp[2]]
                      sent == UdpCall(n, pkg.to.endpoint, pl.mm) \in calls'
                  IN sent =>
                       ~\E qq \in PongPayloads(trans'[n]) :
                           /\ trans'[n].packages[qq[1]].to = pkg.to
                           /\ trans'[n].packages[qq[1]].payloads[qq[2]].mm = pl.mm]_vars

\* the pong of B was handed to the UDP send and left the registry of B,
\* and A has processed it
PongTransmitted ==
  /\ trans["B"].packages = <<>>
  /\ HasKey(pongs_seen["A"], <<<<1, 0>>, EndpointOf["B"]>>)

\* the pongs with the id that n has processed, and where they came from
PongsProcessed(n, id) ==
  LET keys == {k \in DOMAIN pongs_seen[n] : k[1] = id}
      RECURSIVE Sum(_)
      Sum(S) == IF S = {} THEN 0
                ELSE LET k == CHOOSE x \in S : TRUE IN pongs_seen[n][k] + Sum(S \ {k})
  IN Sum(keys)
PongSources(n, id) == {k[2] : k \in {x \in DOMAIN pongs_seen[n] : x[1] = id}}

\* the payloads of all registries
AllPayloads ==
  {<<n, pix, ix>> \in Node \X (1..MaxPackages) \X (1..MaxPackages) :
     pix <= Len(trans[n].packages) /\ ix <= Len(trans[n].packages[pix].payloads)}

\* C6 as stated: the pongs counted on a payload never exceed the number of
\* distinct source endpoints that sent a pong with its id.
PongsWithinSources ==
  \A p \in AllPayloads :
     LET pl == trans[p[1]].packages[p[2]].payloads[p[3]]
     IN pl.meta.pongs <= Cardinality(PongSources(p[1], pl.mm.id))

\* C6, amended: the pongs counted on a payload never exceed the number of
\* pong packets with its id that were processed, a packet that is processed
\* twice counting twice.
PongsWithinPackets ==
  \A p \in AllPayloads :
     LET pl == trans[p[1]].packages[p[2]].payloads[p[3]]
     IN pl.meta.pongs <= PongsProcessed(p[1], pl.mm.id)

\* the same pong of B was processed twice by A and counted twice
PongCountedTwice ==
  \E p \in AllPayloads :
     LET pl == trans[p[1]].packages[p[2]].payloads[p[3]]
     IN /\ pl.meta.pongs = 2
        /\ Cardinality(PongSources(p[1], pl.mm.id)) = 1
        /\ PongsProcessed(p[1], pl.mm.id) = 2

(***************************************************************************)
(* The swarm after that discovery: A and B know the endpoint of each       *)
(* other, the ponged discovery ping of A stays in its registry.            *)
(***************************************************************************)
BefriendedTrans ==
  [A |-> [ping_prime(DefaultTransMeta, KeyOf["A"], EndpointOf["B"], None, 0)
            EXCEPT !.friends = KeyOf["B"] :> {EndpointOf["B"]},
                   !.packages[1].payloads[1].meta.pings = 1,
                   !.packages[1].payloads[1].meta.pongs = 1],
   B |-> [DefaultTransMeta EXCEPT !.friends = KeyOf["A"] :> {EndpointOf["A"]}]]

Befriended ==
  /\ now = StartTime
  /\ our_public_key = KeyOf
  /\ thread = [n \in Node |-> [status |-> "running", our_public_key |-> KeyOf[n],
                                stop |-> FALSE, on_stop |-> TRUE,
                                boot_status |-> "Bootstrapped", until |-> StartTime,
                                bootstrapped |-> StartTime, enable_dht |-> 1]]
  /\ cmd = [n \in Node |-> <<>>]
  /\ trans = BefriendedTrans
  /\ send_handlers = <<>>
  /\ gets = [n \in Node |-> EmptyMap]
  /\ recently_fetched = [n \in Node |-> EmptyMap]
  /\ futures = <<>>
  /\ udp = {}
  /\ dht = EmptyMap
  /\ dht_gets = [n \in Node |-> {}]
  /\ dht_puts = [n \in Node |-> {}]
  /\ PUT_SHUTTLES = [n \in Node |-> EmptyMap]
  /\ RATELIM = [n \in Node |-> EmptyMap]
  /\ calls = {}
  /\ pongs_seen = [A |-> <<<<1, 0>>, EndpointOf["B"]>> :> 1, B |-> EmptyMap]
  /\ ret = Ret("investigate_peer", "A", "Ok")
  /\ investigations = 1
  /\ duplicates = 0
  /\ mmctx = MmCtxNew
  /\ locks = LocksFree
  /\ respawned = NoRespawn
  /\ cd = CodecIdle

Next ==
  \/ Send \/ Recv \/ Poll \/ Put \/ Get \/ Timeout
  \/ IncomingPing \/ DhtItem \/ PutCallback

Spec == Befriended /\ [][Next]_vars

\* C1: roundtrip.  A sent the payload P to B under the subject S, nothing
\* else was ever sent to B under S, and B receives S with a validator that
\* accepts everything: every value the RecvFuture of B resolves to is P.
RoundtripYieldsPayload ==
  \A f \in 1..Len(futures) :
     (/\ send_handlers # <<>>
      /\ futures[f].node = "B"
      /\ futures[f].salt = Subject1
      /\ futures[f].validator = "always_true"
      /\ futures[f].state = "ready")
     => futures[f].result = Some(TwoChunks)

(***************************************************************************)
(* Delivery under fair scheduling.  A and B either know the endpoint of    *)
(* each other or not; the direct pings of A arrive in any order or are     *)
(* lost.  A dht_get stays outstanding in libtorrent until the DHT holds    *)
(* the item (the scheduler re-issues the same get every GetsPeriod         *)
(* seconds), and the item is then delivered to the alerts of the getter.   *)
(***************************************************************************)
\* the network loses a datagram handed to lt_send_udp
LosePing ==
  /\ \E pkt \in udp : udp' = udp \ {pkt}
  /\ UNCHANGED <<now, our_public_key, thread, cmd, trans, send_handlers, gets,
                 recently_fetched, futures, dht, dht_gets, dht_puts, PUT_SHUTTLES,
                 RATELIM, calls, pongs_seen, ret, investigations, duplicates, cd, mmctx, locks, respawned>>

\* the states in which an iteration of the loop of n changes the state:
\* a command is dequeued, or the pass on a timeout has something to do
LoopEnabled(n) ==
  /\ Running(n)
  /\ ~is_stopping(n)
  /\ \E o \in EpOrders(n) : \E ok \in UdpOutcomes :
       IF cmd[n] = <<>>
         THEN \E st \in IterationResults(n, SchedState(n), o, ok) :
                 Committable(st) /\ Differs(n, st)
       ELSE IF Head(cmd[n]).op = "Put"
         THEN \E rnds \in [1..IdsNeeded(n) -> Rand48] :
                 \E st \in IterationResults(n, on_put(SchedState(n), n, Head(cmd[n]), rnds), o, ok) :
                    Committable(st)
       ELSE IF Head(cmd[n]).op = "Get"
         THEN \E st \in IterationResults(n, on_get(SchedState(n), n, Head(cmd[n])), o, ok) :
                 Committable(st)
       ELSE IF Head(cmd[n]).op = "DropGet"
         THEN \E st \in IterationResults(n, on_drop_get(SchedState(n), Head(cmd[n])), o, ok) :
                 Committable(st)
       ELSE \E rnd \in Rand48 :
               \E st \in IterationResults(n, on_ping(SchedState(n), n, Head(cmd[n]), rnd), o, ok) :
                  Committable(st)

\* the alert that left `r` stored a chunk in the registry `g` or panicked
ItemChanges(g, r) == r.out = "panic" \/ r.gets # g

\* the states in which an item the DHT holds changes the registry of its getter
DhtItemEnabled ==
  \E n \in Node : \E g \in dht_gets[n] : \E auth \in AuthValues :
     /\ HasKey(dht, g)
     /\ AtAlerts(n)
     /\ ItemChanges(gets[n], MutableItem(gets[n], thread[n].our_public_key, g[1], g[2],
                                        dht[g].v, dht[g].seq, auth))

\* the executor polls a future when it is new and when its task was notified
PollDue ==
  \E f \in 1..Len(futures) : \E frid \in Frids :
     /\ IsNone(futures[f].frid) \/ futures[f].notified
     /\ poll(f, frid)

InitLive == Started \/ Befriended

NextLive ==
  \/ Send \/ Recv \/ Poll \/ Put \/ Get \/ Timeout
  \/ IncomingPing \/ LosePing \/ DhtItem \/ PutCallback

\* Weak fairness of the loops of both dht_threads, of the put callbacks and
\* item alerts of libtorrent, and of the executor.  For the loops and the
\* item alerts WF is written out, []<>~ENABLED <<A>>_vars \/ []<><<A>>_vars,
\* with the enabling condition computed by the functions of the scheduler.
Fairness ==
  /\ \A n \in Node : []<>(~LoopEnabled(n)) \/ []<><<LoopOf(n)>>_vars
  /\ []<>(~DhtItemEnabled) \/ []<><<DhtItem>>_vars
  /\ WF_vars(PutCallback)
  /\ WF_vars(PollDue)

SpecLive == InitLive /\ [][NextLive]_vars /\ Fairness

\* C2: delivery.  Once A has sent (its SendHandler is never dropped here) and
\* B has a pending RecvFuture with the accepting validator, that future is
\* eventually ready, and whenever its task is notified while it is pending
\* the cache already holds a value, so that the next poll returns Ready;
\* whatever happens to the direct pings.
DeliveryEventuallyReady ==
  /\ [](\A f \in 1..Len(futures) :
          (futures[f].state = "pending" /\ futures[f].notified)
          => HasKey(recently_fetched[futures[f].node], futures[f].salt))
  /\ \A f \in 1..MaxRecvs :
       (send_handlers # <<>> /\ Len(futures) >= f /\ futures[f].state = "pending")
       ~> (Len(futures) >= f /\ futures[f].state = "ready")

\* B got both chunks from the DHT while a direct ping was lost, and its
\* future resolved after a notification
DeliveredOverDht ==
  /\ Len(futures) >= 1
  /\ futures[1].state = "ready"
  /\ futures[1].result = Some(TwoChunks)
  /\ HasKey(gets["B"], Subject1)
  /\ \A i \in 1..Len(gets["B"][Subject1].chunks) : gets["B"][Subject1].chunks[i].seq_auth > 0

(***************************************************************************)
(* The sender: A sends to B and may drop its SendHandler at any moment;    *)
(* the payload is the two-chunk one or one that needs too many chunks.     *)
(***************************************************************************)
\* one byte more than max_chunks chunks hold next to the count byte
Overlarge == Filler(max_chunks * ChunkSize, 2)

SendAny == \E n \in Senders : \E p \in {TwoChunks, Overlarge} : send(n, KeyOf[Peer(n)], Subject1, p)

NextSender ==
  \/ SendAny \/ DropSend \/ Put \/ Timeout
  \/ IncomingPing \/ PutCallback

SpecSender == Befriended /\ [][NextSender]_vars

\* the call `c` of node n transmits a payload of a package to a peer key
\* whose SendHandler does not upgrade, in the registry `tr`
FromDropped(tr, n, c) ==
  /\ c.node = n
  /\ \E pix \in 1..Len(tr.packages) :
       LET pkg == tr.packages[pix] IN
       /\ pkg.to.either = "Left"
       /\ ~Upgrades(pkg.to.send_handler)
       /\ \E ix \in 1..Len(pkg.payloads) :
            \/ c.prim = "lt_send_udp" /\ c.id = pkg.payloads[ix].mm.id
            \/ c.prim = "dht_put" /\ c.seed = pkg.to.seed /\ Some(c.salt) = pkg.payloads[ix].mm.salt

\* C3: cancellation.  No iteration of a dht_thread emits a direct ping or a
\* DHT put for a payload of a package to a peer key once the SendHandler of
\* the package has been dropped, also when it was dropped before the Put
\* command was dequeued.
CancelledStaysSilent ==
  [][\A n \in Node :
       LoopOf(n) => \A c \in calls' : ~FromDropped(trans'[n], n, c)]_vars

\* the handler was dropped before the Put was dequeued; an iteration then
\* made the package and its transmit pass left every payload of it alone
DroppedBeforeDequeue ==
  /\ send_handlers = <<FALSE>>
  /\ cmd["A"] = <<>>
  /\ calls = {}
  /\ \E pix \in 1..Len(trans["A"].packages) :
       LET pkg == trans["A"].packages[pix] IN
       /\ pkg.to.either = "Left"
       /\ Len(pkg.payloads) = 2
       /\ \A ix \in 1..Len(pkg.payloads) :
            pkg.payloads[ix].meta.pings = 0 /\ pkg.payloads[ix].meta.dht_put_invoked = 0

\* the SendHandlers of the packages to peer keys in the registry `tr`
LeftHandles(tr) ==
  {tr.packages[pix].to.send_handler :
     pix \in {i \in 1..Len(tr.packages) : tr.packages[i].to.either = "Left"}}

\* the call transmits a chunk: a DHT put, or a direct ping with a salt
ChunkCall(c) == c.prim = "dht_put" \/ (c.prim = "lt_send_udp" /\ IsSome(c.salt))

\* the chunk call `c` transmits a payload of a package to a peer key in `tr`
OfPackage(tr, c) ==
  \E pix \in 1..Len(tr.packages) :
     LET pkg == tr.packages[pix] IN
     /\ pkg.to.either = "Left"
     /\ \E ix \in 1..Len(pkg.payloads) :
          \/ c.prim = "lt_send_udp" /\ c.id = pkg.payloads[ix].mm.id
          \/ c.prim = "dht_put" /\ c.seed = pkg.to.seed /\ Some(c.salt) = pkg.payloads[ix].mm.salt

\* the Put command at the head of the queue of n needs more than 253 chunks
OverlargePut(n) ==
  /\ cmd[n] # <<>>
  /\ Head(cmd[n]).op = "Put"
  /\ NumberOfChunks(Len(Head(cmd[n]).payload)) > max_chunks

\* C10: overlarge payload rejection.  The iteration that dequeues a Put whose
\* payload needs more than 253 chunks adds no package and allocates no ping
\* id, and nothing is ever emitted for it: an iteration emits DHT puts and
\* chunk pings only for packages of the registry, and a package to a peer
\* key enters the registry only with a Put that is not overlarge.
OverlargeRejected ==
  [][\A n \in Node :
       LoopOf(n) =>
         /\ OverlargePut(n) =>
              /\ Len(trans'[n].packages) <= Len(trans[n].packages)
              /\ LeftHandles(trans'[n]) = LeftHandles(trans[n])
              /\ trans'[n].id_seq = trans[n].id_seq
              /\ \A c \in calls' : ChunkCall(c) => OfPackage(trans[n], c)
         /\ \A c \in calls' : ChunkCall(c) => OfPackage(trans'[n], c)
         /\ \A h \in LeftHandles(trans'[n]) \ LeftHandles(trans[n]) :
              /\ cmd[n] # <<>>
              /\ Head(cmd[n]).op = "Put"
              /\ Head(cmd[n]).send_handler = h
              /\ ~OverlargePut(n)]_vars

\* A has sent the overlarge payload and its loop has dequeued the Put:
\* no package to a peer key, no new id, no put and no packet
OverlargeDequeued ==
  /\ send_handlers = <<TRUE>>
  /\ cmd["A"] = <<>>
  /\ LeftHandles(trans["A"]) = {}
  /\ trans["A"].id_seq = 1
  /\ dht_puts["A"] = {}
  /\ udp = {}

(***************************************************************************)
(* Admission: B receives; chunks that someone encoded for either key,      *)
(* either subject and either index, intact or damaged, reach B under any   *)
(* salt, as direct pings and as DHT items.                                 *)
(***************************************************************************)
Subject2 == <<115, 50>>
ForgedSubjects == {Subject1, Subject2}
ForgedIndexes == {1, 2}
ForgedSeqs == {1, 2}

\* the body an encoder puts into chunk idx for (key, subject): the count byte
\* of a two-chunk value first in chunk 1, then a byte that tells the bodies apart
ForgedBody(idx, k, subject) ==
  (IF idx = 1 THEN <<2>> ELSE <<>>) \o <<k[1] + subject[2] + idx>>

\* the last byte of the chunk damaged in transit
Damaged(chunk) == [chunk EXCEPT ![Len(chunk)] = (@ + 1) % 256]

ForgedChunks ==
  LET intact == {ForgedBody(idx, KeyOf[n], subject) \o ChunkCrc(idx, ForgedBody(idx, KeyOf[n], subject), KeyOf[n], subject) :
                   <<idx, n, subject>> \in ForgedIndexes \X Node \X ForgedSubjects}
  IN intact \cup {Damaged(c) : c \in intact}

\* the salts the chunks arrive under: those of the subject B receives
ForgedSalts == {Subject1 \o <<idx>> : idx \in ForgedIndexes}

\* a direct ping of A carrying `chunk` under `salt` arrives at n
DirectArrival(n, salt, chunk) ==
  incoming_ping(n, [src |-> EndpointOf["A"], dst |-> EndpointOf[n],
                    mm |-> [id |-> <<9, 0>>, from |-> KeyOf["A"], pong |-> 0,
                            salt |-> Some(salt), chunk |-> Some(chunk)]],
                TRUE, FALSE)

\* libtorrent reports to n the item it found under (the key derived from
\* the seed of n, salt)
ItemArrival(n, salt, chunk, seq) ==
  dht_mutable_item(n, DerivedPk(KeyOf[n]), salt, bencode(chunk), seq, TRUE)

ForgedPing ==
  \E n \in Receivers : \E salt \in ForgedSalts : \E chunk \in ForgedChunks :
     DirectArrival(n, salt, chunk)
ForgedItem ==
  \E n \in Receivers : \E salt \in ForgedSalts : \E chunk \in ForgedChunks : \E seq \in ForgedSeqs :
     ItemArrival(n, salt, chunk, seq)

NextAdmission == Recv \/ Poll \/ Get \/ Timeout \/ ForgedPing \/ ForgedItem

SpecAdmission == Started /\ [][NextAdmission]_vars

\* the step writes a chunk body into slot idx of the GetsEntry of `subject`
Written(n, subject, idx) ==
  /\ HasKey(gets'[n], subject)
  /\ Len(gets'[n][subject].chunks) >= idx
  /\ IsSome(gets'[n][subject].chunks[idx].payload)
  /\ \/ ~HasKey(gets[n], subject)
     \/ Len(gets[n][subject].chunks) < idx
     \/ gets[n][subject].chunks[idx] # gets'[n][subject].chunks[idx]

\* the trailing checksum of the chunk is the CRC over (idx, body, key, subject)
ChecksumMatches(chunk, idx, key, subject) ==
  /\ Len(chunk) > ChecksumLen
  /\ SubSeq(chunk, Len(chunk) - ChecksumLen + 1, Len(chunk))
       = ChunkCrc(idx, ChunkBody(chunk), key, subject)

\* C7: on the direct-ping path and on the DHT-item path alike, the arrival
\* of a chunk under a salt writes a slot only if the trailing checksum of
\* the chunk is the CRC over (the index in the last salt byte, the body, the
\* key of the receiver, the subject salt); a chunk encoded for another key,
\* another subject or another index is not admitted.
AdmitsOnlyVerified ==
  [][\A n \in Receivers : \A subject \in {Subject1} : \A idx \in ForgedIndexes :
       \A chunk \in ForgedChunks :
          (/\ Written(n, subject, idx)
           /\ \/ DirectArrival(n, subject \o <<idx>>, chunk)
              \/ \E seq \in ForgedSeqs : ItemArrival(n, subject \o <<idx>>, chunk, seq))
          => ChecksumMatches(chunk, idx, thread[n].our_public_key, subject)]_vars

\* B holds both chunks of Subject1, one that came as a DHT item and one
\* that came as a direct ping
AdmittedOnBothPaths ==
  /\ HasKey(gets["B"], Subject1)
  /\ Len(gets["B"][Subject1].chunks) = 2
  /\ gets["B"][Subject1].chunks[1].payload = Some(Tail(ForgedBody(1, KeyOf["B"], Subject1)))
  /\ gets["B"][Subject1].chunks[2].payload = Some(ForgedBody(2, KeyOf["B"], Subject1))
  /\ gets["B"][Subject1].chunks[1].seq_auth > 0
  /\ gets["B"][Subject1].chunks[2].seq_auth = 0

(***************************************************************************)
(* The codec on its own: split_and_put on a payload, the chunks it made    *)
(* received in index order as incoming_ping receives them, the value       *)
(* reassembled as get_pieces_scheduler_en reassembles it.                  *)
(***************************************************************************)
\* payloads of up to MaxCodecChunks chunks are tried around every chunk boundary
MaxCodecChunks == 3
CodecLens ==
  {len \in 0..(MaxCodecChunks * ChunkSize) :
     \/ len <= 1
     \/ len % ChunkSize \in {0, 1, ChunkSize - 2, ChunkSize - 1}}
\* the longest payload split_and_put takes, and the shortest it rejects
CodecLimitLens == {max_chunks * ChunkSize - 1, max_chunks * ChunkSize}
CodecSubjects == {Subject1, Subject2}

CodecInputs ==
  {[CodecIdle EXCEPT !.seed = KeyOf[n], !.salt = subject, !.data = Filler(len, 1)] :
     n \in Node, subject \in CodecSubjects, len \in CodecLens}
  \cup {[CodecIdle EXCEPT !.seed = KeyOf["B"], !.salt = Subject1, !.data = Filler(len, 1)] :
          len \in CodecLimitLens}

InitCodec ==
  /\ ProtoInit
  /\ cd \in CodecInputs

\* the chunks of the package split_and_put added, if any
PackageChunks(tr) ==
  IF tr.packages = <<>> THEN <<>>
  ELSE [ix \in 1..Len(tr.packages[1].payloads) |-> Unwrap(tr.packages[1].payloads[ix].mm.chunk)]

CodecSplit ==
  /\ cd.pc = "idle"
  /\ cd' = [cd EXCEPT
              !.pc = "split",
              !.chunks = PackageChunks(
                 split_and_put(DefaultTransMeta, EmptyMap, ZeroKey, cd.seed, cd.salt, cd.data,
                               0, [k \in 1..max_chunks |-> 0]).trans)]
  /\ UNCHANGED <<now, our_public_key, thread, cmd, trans, send_handlers, gets,
                 recently_fetched, futures, udp, dht, dht_gets, dht_puts, PUT_SHUTTLES,
                 RATELIM, calls, pongs_seen, ret, investigations, duplicates, mmctx, locks, respawned>>

\* the chunks k..Len(chunks) received into `g`, in index order
RECURSIVE ReceiveChunksIn(_, _, _, _, _, _)
ReceiveChunksIn(g, key, salt, chunks, lo, hi) ==
  IF lo > hi THEN g
  ELSE IF lo = hi THEN IncomingChunk(g, key, salt \o <<lo>>, chunks[lo]).gets
  ELSE LET mid == (lo + hi) \div 2
           left == ReceiveChunksIn(g, key, salt, chunks, lo, mid)
       IN IF Cardinality(DOMAIN left) >= 0
            THEN ReceiveChunksIn(left, key, salt, chunks, mid + 1, hi)
            ELSE left

ReceiveChunks(g, key, salt, chunks, k) == ReceiveChunksIn(g, key, salt, chunks, k, Len(chunks))

CodecReceive ==
  /\ cd.pc = "split"
  /\ cd.chunks # <<>>
  /\ cd' = [cd EXCEPT !.pc = "received",
                      !.gets = ReceiveChunks(EmptyMap, cd.seed, cd.salt, cd.chunks, 1)]
  /\ UNCHANGED <<now, our_public_key, thread, cmd, trans, send_handlers, gets,
                 recently_fetched, futures, udp, dht, dht_gets, dht_puts, PUT_SHUTTLES,
                 RATELIM, calls, pongs_seen, ret, investigations, duplicates, mmctx, locks, respawned>>

\* the value the scheduler publishes for the entry, if it publishes one
Published(r, salt) == IF HasKey(r.fetched, salt) THEN Some(r.fetched[salt][2]) ELSE None

CodecReassemble ==
  /\ cd.pc = "received"
  /\ HasKey(cd.gets, cd.salt)
  /\ cd' = [cd EXCEPT !.pc = "done",
                      !.out = Published(get_pieces_scheduler_en("B", cd.seed, cd.salt,
                                                                cd.gets[cd.salt], EmptyMap, EmptyMap),
                                        cd.salt)]
  /\ UNCHANGED <<now, our_public_key, thread, cmd, trans, send_handlers, gets,
                 recently_fetched, futures, udp, dht, dht_gets, dht_puts, PUT_SHUTTLES,
                 RATELIM, calls, pongs_seen, ret, investigations, duplicates, mmctx, locks, respawned>>

NextCodec == CodecSplit \/ CodecReceive \/ CodecReassemble

SpecCodec == InitCodec /\ [][NextCodec]_vars

\* C8: codec round trip.  For every payload within the chunking limit, the
\* empty one and those one byte short of a multiple of the chunk size
\* included, split_and_put produces chunks, the receiver admits every one of
\* them, and the bodies it concatenates in index order are the payload.
CodecRoundTrip ==
  /\ (cd.pc # "idle" /\ NumberOfChunks(Len(cd.data)) <= max_chunks) => cd.chunks # <<>>
  /\ cd.pc \in {"received", "done"} =>
       /\ HasKey(cd.gets, cd.salt)
       /\ Len(cd.gets[cd.salt].chunks) = Len(cd.chunks)
       /\ \A k \in 1..Len(cd.chunks) : IsSome(cd.gets[cd.salt].chunks[k].payload)
  /\ cd.pc = "done" => cd.out = Some(cd.data)

\* a payload that fills its chunks to the last byte went through the round trip
LongestRoundTrip ==
  /\ cd.pc = "done"
  /\ Len(cd.data) = MaxCodecChunks * ChunkSize - 1
  /\ Len(cd.chunks) = MaxCodecChunks
  /\ cd.out = Some(cd.data)

\* the number of chunks split_and_put made of a payload of `len` bytes is n,
\* in the package and in the count byte
EncodesTo(len, n) ==
  (cd.pc # "idle" /\ Len(cd.data) = len) => (Len(cd.chunks) = n /\ cd.chunks[1][1] = n)

\* C9 as stated: payloads of 991, 992 and 993 bytes encode to 1, 1 and 2 chunks.
ChunkBoundaryAsStated ==
  EncodesTo(ChunkSize - 1, 1) /\ EncodesTo(ChunkSize, 1) /\ EncodesTo(ChunkSize + 1, 2)

\* C9, amended: payloads of 991, 992 and 993 bytes encode to 1, 2 and 2
\* chunks, the count byte taking the first of the 992 bytes of chunk 1.
ChunkBoundary ==
  EncodesTo(ChunkSize - 1, 1) /\ EncodesTo(ChunkSize, 2) /\ EncodesTo(ChunkSize + 1, 2)

\* a payload of 992 bytes was split into two chunks, the second of one byte
\* and its checksum
BoundarySplit ==
  /\ cd.pc = "split"
  /\ Len(cd.data) = ChunkSize
  /\ Len(cd.chunks) = 2
  /\ Len(cd.chunks[2]) = 1 + ChecksumLen

(***************************************************************************)
(* The API on its own: every entry point called on fresh and on            *)
(* initialized contexts, with valid and with invalid arguments.            *)
(***************************************************************************)
ApiKeys(n) == {ZeroKey, KeyOf[n]}
ApiPayloads == {TwoChunks, Overlarge}
ApiIps(n) == {BadIp, EndpointOf[Peer(n)]}

Initialize == \E n \in Node : \E k \in ApiKeys(n) : initialize(n, k)
SendApi ==
  \E n \in Senders : \E peer \in ApiKeys(Peer(n)) : \E p \in ApiPayloads : send(n, peer, Subject1, p)
RecvApi == \E n \in Receivers : recv(n, Subject1, "always_true")
InvestigateApi == \E n \in Senders : \E ip \in ApiIps(n) : investigate_peer(n, ip)
Key == \E n \in Node : peers_key(n)

NextApi == Initialize \/ SendApi \/ RecvApi \/ Poll \/ InvestigateApi \/ Key

SpecApi == Init /\ [][NextApi]_vars

\* C11: a call of send with a payload that needs more than 253 chunks
\* returns an error to its caller instead of a sender handle.
OverlargeSendFails ==
  [][\A n \in Node : \A peer \in ApiKeys(Peer(n)) :
       send(n, peer, Subject1, Overlarge)
         => (ret'.result # "Ok" /\ send_handlers' = send_handlers)]_vars

\* the Put commands of the queues
QueuedPuts == {c \in UNION {{cmd[n][i] : i \in 1..Len(cmd[n])} : n \in Node} : c.op = "Put"}

\* C12: state errors are returned and start nothing.  initialize with the
\* zero key fails and leaves the thread unspawned and no stop listener;
\* send to the zero key fails and enqueues no Put; recv on a context whose
\* key is zero yields a failed future, which no poll turns into a Get;
\* investigate_peer with an unparsable ip fails and enqueues no Ping.
StateErrorsStartNothing ==
  /\ [][/\ \A n \in Node :
             initialize(n, ZeroKey) => (ret'.result # "Ok" /\ thread' = thread)
        /\ \A n \in Node : \A p \in ApiPayloads :
             send(n, ZeroKey, Subject1, p)
               => (ret'.result # "Ok" /\ cmd' = cmd /\ send_handlers' = send_handlers)
        /\ \A n \in Node :
             (recv(n, Subject1, "always_true") /\ ~nonz(our_public_key[n]))
               => (/\ ret'.result # "Ok"
                   /\ futures'[Len(futures')].state = "failed"
                   /\ cmd' = cmd)
        /\ \A f \in 1..Len(futures) :
             futures[f].state = "failed"
               => (futures'[f].state = "failed" /\ \A frid \in Frids : ~poll(f, frid))
        /\ \A n \in Node :
             investigate_peer(n, BadIp) => (ret'.result # "Ok" /\ cmd' = cmd)]_vars
  /\ [](\A n \in Node : thread[n].status = "none" => ~thread[n].on_stop)
  /\ [](\A c \in QueuedPuts : nonz(c.seed))

\* every state error has been returned: the send to the zero key, the recv
\* and the investigate_peer left no command, no thread runs, and the last
\* call was an initialize that failed
StateErrorsReturned ==
  /\ ret.op = "initialize" /\ ret.result # "Ok"
  /\ \A n \in Node : thread[n].status = "none" /\ cmd[n] = <<>>
  /\ \E n \in Node : HasKey(trans[n].friends, ZeroKey)
  /\ send_handlers = <<>>
  /\ futures # <<>> /\ futures[1].state = "failed"
  /\ investigations > 0

\* C13: key returns the local public key after initialize succeeded, and
\* fails on a context on which initialize has not successfully run.
KeyNeedsInitialize ==
  ret.op = "key" =>
    IF thread[ret.node].status = "none"
      THEN ret.result # "Ok"
      ELSE ret.result = "Ok" /\ ret.value = our_public_key[ret.node] /\ nonz(ret.value)

(***************************************************************************)
(* Protocol errors: B receives Subject1 while pings and DHT items arrive   *)
(* that are well-formed, that carry other versions of a chunk, or that are *)
(* malformed in one of the ways the callbacks test for.                    *)
(***************************************************************************)
\* bodies of CRC-valid chunks: chunk 1 with a count byte of 0 or 2,
\* chunk 2 in two versions, and a chunk 3, which is out of bounds
ProtoBodies ==
  {<<1, <<0, 7>> >>, <<1, <<2, 7>> >>, <<2, <<7>> >>, <<2, <<8>> >>, <<3, <<7>> >>}
\* those of them that also arrive as DHT items
ItemBodies == {b \in ProtoBodies : b[2][1] # 8}
ProtoChunk(b) == b[2] \o ChunkCrc(b[1], b[2], KeyOf["B"], Subject1)
ProtoSalt(b) == Subject1 \o <<b[1]>>

\* the MmPayload of a direct ping with a salt and a chunk
ChunkPing(from, salt, chunk) ==
  [id |-> <<9, 0>>, from |-> from, pong |-> 0, salt |-> Some(salt), chunk |-> Some(chunk)]

\* well-formed chunk pings, and pings with a short `from`, a salt of one
\* byte, an index byte of 0, a chunk of four bytes and a damaged checksum
ProtoPings ==
  {ChunkPing(KeyOf["A"], ProtoSalt(b), ProtoChunk(b)) : b \in ProtoBodies}
  \cup {ChunkPing(<<1, 2, 3>>, Subject1 \o <<2>>, ProtoChunk(<<2, <<7>> >>)),
        ChunkPing(KeyOf["A"], <<2>>, ProtoChunk(<<2, <<7>> >>)),
        ChunkPing(KeyOf["A"], Subject1 \o <<0>>, ProtoChunk(<<2, <<7>> >>)),
        ChunkPing(KeyOf["A"], Subject1 \o <<2>>, <<1, 2, 3, 4>>),
        ChunkPing(KeyOf["A"], Subject1 \o <<2>>, Damaged(ProtoChunk(<<2, <<7>> >>)))}

\* well-formed items, and items with an empty salt, a salt of one byte, an
\* index byte of 0, a value that is no byte string, a chunk of four bytes
\* and a damaged checksum
ProtoItems ==
  {<<ProtoSalt(b), bencode(ProtoChunk(b))>> : b \in ItemBodies}
  \cup {<< <<>>, bencode(ProtoChunk(<<2, <<7>> >>))>>,
        << <<2>>, bencode(ProtoChunk(<<2, <<7>> >>))>>,
        <<Subject1 \o <<0>>, bencode(ProtoChunk(<<2, <<7>> >>))>>,
        <<Subject1 \o <<2>>, <<105, 49, 101>> >>,
        <<Subject1 \o <<2>>, bencode(<<1, 2, 3, 4>>)>>,
        <<Subject1 \o <<2>>, bencode(Damaged(ProtoChunk(<<2, <<7>> >>)))>>}

\* the ping `mm` of A arrives at n
PingArrival(n, mm) ==
  incoming_ping(n, [src |-> EndpointOf["A"], dst |-> EndpointOf[n], mm |-> mm], TRUE, FALSE)

ProtoPing == \E n \in Receivers : \E mm \in ProtoPings : PingArrival(n, mm)
ProtoItem ==
  \E n \in Receivers : \E it \in ProtoItems : \E seq \in ForgedSeqs :
     dht_mutable_item(n, DerivedPk(KeyOf[n]), it[1], it[2], seq, TRUE)

NextProtocol == Recv \/ Poll \/ Get \/ ProtoPing \/ ProtoItem

SpecProtocol == Started /\ [][NextProtocol]_vars

\* number_of_chunks of the GetsEntry of `salt` in the registry g
NumberOf(g, salt) == IF HasKey(g, salt) THEN g[salt].number_of_chunks ELSE None

\* C14: number_of_chunks of every GetsEntry is None or within 1..253, and
\* it changes only when a CRC-valid chunk with index 1 is processed, to the
\* leading byte of that chunk, on the direct-ping path and on the DHT path.
NumberOfChunksInRange ==
  /\ [](\A n \in Node : \A salt \in DOMAIN gets[n] :
          IsNone(gets[n][salt].number_of_chunks)
          \/ Unwrap(gets[n][salt].number_of_chunks) \in 1..max_chunks)
  /\ [][\A n \in Receivers :
          NumberOf(gets'[n], Subject1) # NumberOf(gets[n], Subject1)
            => \E b \in ItemBodies :
                 /\ b[1] = 1
                 /\ NumberOf(gets'[n], Subject1) = Some(Head(b[2]))
                 /\ \/ PingArrival(n, ChunkPing(KeyOf["A"], ProtoSalt(b), ProtoChunk(b)))
                    \/ \E seq \in ForgedSeqs :
                         dht_mutable_item(n, DerivedPk(KeyOf[n]), ProtoSalt(b),
                                          bencode(ProtoChunk(b)), seq, TRUE)]_vars

\* the slots the GetsEntry of `salt` has before and after the step
SlotsKept(n, salt) ==
  IF HasKey(gets[n], salt) /\ HasKey(gets'[n], salt)
    THEN 1..Min(Len(gets[n][salt].chunks), Len(gets'[n][salt].chunks))
    ELSE {}

\* C15: per-chunk version monotonicity.  The payload of a populated slot is
\* replaced only by a chunk whose seq_auth is strictly greater than that of
\* the slot, and the seq_auth of a slot never decreases, whichever path the
\* chunk came by.
VersionMonotonic ==
  [][\A n \in Node : \A salt \in DOMAIN gets[n] : \A i \in SlotsKept(n, salt) :
       LET old == gets[n][salt].chunks[i]
           new == gets'[n][salt].chunks[i]
       IN /\ new.seq_auth >= old.seq_auth
          /\ (IsSome(old.payload) /\ new.payload # old.payload)
               => new.seq_auth > old.seq_auth]_vars

\* C18: protocol errors never crash the scheduler.  Whatever ping or item
\* alert arrives, the dht_thread that was running is running afterwards.
ProtocolErrorsAbsorbed ==
  [][\A n \in Node : thread[n].status = "running" => thread'[n].status = "running"]_vars


(***************************************************************************)
(* Package lifecycle: what becomes of a package once its payloads are      *)
(* delivered.  The loops of the dht_threads run again and again and the    *)
(* network keeps delivering the datagrams it holds.                        *)
(***************************************************************************)
\* Weak fairness of the loops of both dht_threads (written out as in
\* Fairness) and of the delivery of datagrams: WF_vars(IncomingPing).
FairnessDiscovery ==
  /\ \A n \in Node : []<>(~LoopEnabled(n)) \/ []<><<LoopOf(n)>>_vars
  /\ WF_vars(IncomingPing)

SpecDiscoveryLive == Started /\ [][NextDiscovery]_vars /\ FairnessDiscovery

\* the ids a discovery ping can get
DiscoveryIds == {<<s, r>> : s \in 1..MaxInvestigations, r \in Rand48}

\* the discovery pings (pong = 0, addressed to a socket address) in `tr`
DiscoveryPings(tr) ==
  {pp \in (1..Len(tr.packages)) \X (1..MaxPackages) :
     /\ pp[2] <= Len(tr.packages[pp[1]].payloads)
     /\ tr.packages[pp[1]].to.either = "Right"
     /\ tr.packages[pp[1]].payloads[pp[2]].mm.pong = 0}

\* n holds the discovery ping `id`; a pong with that id has been received
HoldsDiscovery(n, id) ==
  \E pp \in DiscoveryPings(trans[n]) :
     trans[n].packages[pp[1]].payloads[pp[2]].mm.id = id
PongedDiscovery(n, id) ==
  \E pp \in DiscoveryPings(trans[n]) :
     /\ trans[n].packages[pp[1]].payloads[pp[2]].mm.id = id
     /\ trans[n].packages[pp[1]].payloads[pp[2]].meta.pongs > 0

\* C16: discovery package lifecycle.  A package addressed to a socket
\* address that carries a discovery ping is eventually removed from the
\* packages of the Trans registry after a pong with its id was received.
DiscoveryPackageRemoved ==
  \A n \in Node : \A id \in DiscoveryIds :
     PongedDiscovery(n, id) ~> ~HoldsDiscovery(n, id)


\* the states in which a datagram is waiting for a dht_thread that reads
\* its alerts
IncomingPingEnabled ==
  \E n \in Node : \E pkt \in udp : pkt.dst = EndpointOf[n] /\ AtAlerts(n)

\* Weak fairness of the loops of both dht_threads and of the delivery of
\* datagrams (written out as in Fairness), and of the put callbacks,
\* WF_vars(PutCallback).
FairnessSender ==
  /\ \A n \in Node : []<>(~LoopEnabled(n)) \/ []<><<LoopOf(n)>>_vars
  /\ []<>(~IncomingPingEnabled) \/ []<><<IncomingPing>>_vars
  /\ WF_vars(PutCallback)

\* A sends a payload of two chunks to B and may drop its SendHandler
NextBulk ==
  \/ Send \/ DropSend \/ Put \/ Timeout
  \/ IncomingPing \/ PutCallback

SpecBulk == Befriended /\ [][NextBulk]_vars /\ FairnessSender

\* n holds a package addressed to a peer key on behalf of the SendHandler h
HoldsPackageOf(n, h) ==
  \E pix \in 1..Len(trans[n].packages) :
     /\ trans[n].packages[pix].to.either = "Left"
     /\ trans[n].packages[pix].to.send_handler = h

\* C17: bulk package lifecycle.  A package addressed to a peer key is
\* eventually removed from the packages of the Trans registry after the
\* application has dropped its SendHandler.
BulkPackageRemoved ==
  \A n \in Node : \A h \in 1..MaxSends :
     (HoldsPackageOf(n, h) /\ ~Upgrades(h)) ~> ~HoldsPackageOf(n, h)


(***************************************************************************)
(* Primitive errors: A investigates the endpoint of B while lt_send_udp    *)
(* and dht_alerts may report errors to the dht_threads.                    *)
(***************************************************************************)
\* an iteration of the loop of n in which lt_send_udp reports an error
UdpFailure(n) ==
  \E o \in EpOrders(n) :
     \/ LoopTimeout(n, o, FALSE)
     \/ \E rnd \in Rand48 : LoopPing(n, rnd, o, FALSE)

UdpError == \E n \in Node : UdpFailure(n)
AlertsError == \E n \in Node : dht_alerts_error(n)

NextPrimitives ==
  Investigate \/ PingCmd \/ Timeout \/ IncomingPing \/ UdpError \/ AlertsError

SpecPrimitives == Started /\ [][NextPrimitives]_vars

\* C19: primitive errors are absorbed.  When lt_send_udp or dht_alerts
\* reports an error to the running dht_thread, the thread goes on with its
\* loop: the loop does not exit because of the error.
PrimitiveErrorsAbsorbed ==
  [][\A n \in Node :
       (UdpFailure(n) \/ dht_alerts_error(n)) => thread'[n].status = "running"]_vars


(***************************************************************************)
(* Shutdown: the application stops a context while its dht_thread has      *)
(* discovery pings to send and commands in its queue.                      *)
(***************************************************************************)
Stop == \E n \in Node : stop(n)
Break == \E n \in Node : LoopBreak(n)

NextShutdown ==
  Investigate \/ PingCmd \/ Timeout \/ IncomingPing \/ Stop \/ Break

\* Weak fairness of the loops of both dht_threads (written out as in
\* Fairness) and of the exit of a loop that finds is_stopping: WF_vars(Break).
FairnessShutdown ==
  /\ \A n \in Node : []<>(~LoopEnabled(n)) \/ []<><<LoopOf(n)>>_vars
  /\ WF_vars(Break)

SpecShutdown == Started /\ [][NextShutdown]_vars /\ FairnessShutdown

MaxSubscribers == 2

SubscriberFrids == 1..MaxSubscribers

RecvMany == \E n \in Receivers : recv_within(n, Subject1, "always_true", MaxSubscribers)
PollAny == \E f \in 1..Len(futures) : \E frid \in SubscriberFrids : poll(f, frid)

\* the chunks of the value <<7, 7>>: chunk 1 with the count byte 2, chunk 2
ReceiverBodies == {<<1, <<2, 7>> >>, <<2, <<7>> >>}

ItemAlert ==
  \E n \in Receivers : \E b \in ReceiverBodies :
     dht_mutable_item(n, DerivedPk(KeyOf[n]), ProtoSalt(b), bencode(ProtoChunk(b)), 1, TRUE)

\* the period of the gets scheduler passes
Later == Tick(GetsPeriod)

NextReceiver ==
  RecvMany \/ PollAny \/ DropRecv \/ Get \/ DropGet \/ Timeout \/ ItemAlert \/ Later

SpecReceiver == Started /\ [][NextReceiver]_vars


\* the DropGet commands a caller may send: known and unknown salts and frids
DropGetCommands ==
  {[op |-> "DropGet", salt |-> s, frid |-> fr] :
     s \in {Subject1, Subject2}, fr \in 1..(MaxSubscribers + 1)}

\* the DropGet command the loop of n dequeues next, if any
DropGetDue(n) ==
  IF cmd[n] # <<>> /\ Head(cmd[n]).op = "DropGet" THEN {Head(cmd[n])} ELSE {}

\* the scheduler state `after` is `st` with the subscriber of `c` removed
\* and with nothing else changed
OnlySubscriberRemoved(st, c, after) ==
  /\ after = [st EXCEPT !.gets = after.gets]
  /\ DOMAIN after.gets = DOMAIN st.gets
  /\ \A s \in DOMAIN st.gets :
       LET old == st.gets[s]
           new == after.gets[s]
           gone == IF s = c.salt THEN {c.frid} ELSE {}
       IN /\ new = [old EXCEPT !.futures = new.futures]
          /\ DOMAIN new.futures = (DOMAIN old.futures) \ gone
          /\ \A fr \in DOMAIN new.futures : new.futures[fr] = old.futures[fr]

\* C21: recv cancellation.  Processing DropGet {salt, frid} removes exactly
\* the subscriber frid from the GetsEntry of salt: the entry stays, its
\* chunk slots, its other subscribers and the fetched cache are unchanged,
\* and a DropGet for an unknown salt or an unknown frid changes nothing.  The
\* iteration that dequeues the DropGet leaves the subscribers so.
DropGetRemovesOnly ==
  /\ [](\A n \in Node : \A c \in DropGetCommands \cup DropGetDue(n) :
          LET st == SchedState(n)
              after == on_drop_get(st, c)
          IN /\ OnlySubscriberRemoved(st, c, after)
             /\ (~HasKey(st.gets, c.salt) \/ ~HasKey(st.gets[c.salt].futures, c.frid))
                  => after = st)
  /\ [][\A n \in Node :
          (\E o \in EpOrders(n) : \E ok \in UdpOutcomes : LoopDropGet(n, o, ok))
            => /\ DOMAIN gets'[n] = DOMAIN gets[n]
               /\ \A s \in DOMAIN gets[n] :
                    LET gone == IF s = Head(cmd[n]).salt THEN {Head(cmd[n]).frid} ELSE {}
                    IN /\ DOMAIN gets'[n][s].futures = (DOMAIN gets[n][s].futures) \ gone
                       /\ \A fr \in DOMAIN gets'[n][s].futures :
                            gets'[n][s].futures[fr] = gets[n][s].futures[fr]]_vars

\* a DropGet was processed while another subscriber was registered: one
\* future is dropped, the other one is still subscribed, alone
OneSubscriberLeft ==
  /\ Len(futures) = 2
  /\ cmd["B"] = <<>>
  /\ \E f \in 1..2 : \E g \in 1..2 :
       /\ futures[f].state = "dropped" /\ IsSome(futures[f].frid)
       /\ futures[g].state = "pending" /\ IsSome(futures[g].frid)
       /\ futures[f].frid # futures[g].frid
       /\ HasKey(gets["B"], Subject1)
       /\ DOMAIN gets["B"][Subject1].futures = {Unwrap(futures[g].frid)}


(***************************************************************************)
(* Stop listeners: threads call MmCtx::stop and MmCtx::on_stop on one      *)
(* context concurrently.  A call is a sequence of steps: the swap of the   *)
(* stop flag, the lock of stop_listeners, the work under the lock.         *)
(***************************************************************************)
PeersVars ==
  <<now, our_public_key, thread, cmd, trans, send_handlers, gets, recently_fetched,
    futures, udp, dht, dht_gets, dht_puts, PUT_SHUTTLES, RATELIM, calls, pongs_seen,
    ret, investigations, duplicates, cd, locks, respawned>>

\* stop: self.stop.compare_and_swap (false, true, Ordering::Relaxed) == false
stop_swap(p) ==
  /\ mmctx.pc[p] = "idle"
  /\ mmctx' = IF ~mmctx.stop
                THEN [mmctx EXCEPT !.stop = TRUE, !.pc[p] = "lock"]
                ELSE [mmctx EXCEPT !.pc[p] = "done"]
  /\ UNCHANGED PeersVars

\* stop: self.stop_listeners.lock()
stop_lock(p) ==
  /\ mmctx.pc[p] = "lock"
  /\ mmctx.lock = ""
  /\ mmctx' = [mmctx EXCEPT !.lock = p, !.pc[p] = "drain"]
  /\ UNCHANGED PeersVars

\* stop: for mut listener in stop_listeners.drain (..) {listener()}, and the
\* release of the lock at the end of the block
stop_drain(p) ==
  /\ mmctx.pc[p] = "drain"
  /\ mmctx' = IF mmctx.stop_listeners # <<>>
                THEN [mmctx EXCEPT !.invoked[Head(mmctx.stop_listeners)] = @ + 1,
                                   !.stop_listeners = Tail(@)]
                ELSE [mmctx EXCEPT !.lock = "", !.published = TRUE, !.pc[p] = "done"]
  /\ UNCHANGED PeersVars

\* on_stop: self.stop_listeners.lock()
on_stop_lock(p) ==
  /\ mmctx.pc[p] = "idle"
  /\ mmctx.lock = ""
  /\ mmctx' = [mmctx EXCEPT !.lock = p, !.pc[p] = "load"]
  /\ UNCHANGED PeersVars

\* what self.stop.load (Ordering::Relaxed) can return: the flag, and also
\* the old `false` as long as the swap that set the flag does not happen
\* before the load, which is until the stopping thread has released the lock
FlagReads == IF mmctx.stop /\ ~mmctx.published THEN {TRUE, FALSE} ELSE {mmctx.stop}

on_stop_load_push(p, seen) ==
  /\ mmctx.pc[p] = "load"
  /\ mmctx' = [mmctx EXCEPT !.stop_listeners = Append(@, p), !.lock = "", !.pc[p] = "done"]
  /\ UNCHANGED PeersVars

\* on_stop: if self.stop.load (..) {cb()} else {stop_listeners.push (cb)},
\* and the release of the lock
on_stop_load(p, seen) ==
  /\ mmctx.pc[p] = "load"
  /\ mmctx' = IF seen
                THEN [mmctx EXCEPT !.invoked[p] = @ + 1, !.lock = "", !.pc[p] = "done"]
                ELSE [mmctx EXCEPT !.stop_listeners = Append(@, p),
                                   !.lock = "", !.pc[p] = "done"]
  /\ UNCHANGED PeersVars

StopSwap == \E p \in Stoppers : stop_swap(p)
StopLock == \E p \in Stoppers : stop_lock(p)
StopDrain == \E p \in Stoppers : stop_drain(p)
OnStopLock == \E p \in Registrars : on_stop_lock(p)
OnStopLoad == \E p \in Registrars : \E seen \in FlagReads : on_stop_load(p, seen)

NextStop == StopSwap \/ StopLock \/ StopDrain \/ OnStopLock \/ OnStopLoad

SpecStop == Init /\ [][NextStop]_vars

\* C22: stop listeners run exactly once.  Whatever the interleaving of the
\* calls of stop and on_stop, no callback is invoked twice and none before
\* the context is stopping; once a stop has run to its end, every callback
\* whose on_stop has returned was invoked exactly once; and a stop that
\* finds the flag set invokes nothing.
StopListenersOnce ==
  /\ [](\A cb \in Registrars :
          /\ mmctx.invoked[cb] <= 1
          /\ ~mmctx.stop => mmctx.invoked[cb] = 0
          /\ (/\ mmctx.stop
              /\ \A s \in Stoppers : mmctx.pc[s] \in {"idle", "done"}
              /\ mmctx.pc[cb] = "done") => mmctx.invoked[cb] = 1)
  /\ [][\A s \in Stoppers :
          (mmctx.stop /\ mmctx.pc[s] = "idle" /\ mmctx'.pc[s] # "idle")
            => (mmctx'.pc[s] = "done" /\ mmctx'.invoked = mmctx.invoked)]_vars

\* all calls have returned: two stops, an on_stop that found the context
\* stopped and one that did not; every callback was invoked once
StopCallsReturned ==
  /\ \A p \in StopCallers : mmctx.pc[p] = "done"
  /\ \A cb \in Registrars : mmctx.invoked[cb] = 1
  /\ mmctx.stop /\ mmctx.stop_listeners = <<>> /\ mmctx.lock = ""


\* the bodies of the slots of `en`, in index order, one after the other
SlotBodies(en) ==
  ConcatAll([i \in 1..Len(en.chunks) |->
               IF IsSome(en.chunks[i].payload) THEN Unwrap(en.chunks[i].payload) ELSE <<>>],
            Len(en.chunks))

\* C23: reassembly and publication.  An iteration of the loop writes the
\* fetched cache of a subject-salt only when every chunk slot of its
\* GetsEntry holds a payload, the value written is the concatenation of the
\* slot bodies in index order, stamped with the current time, and the pass
\* that finds the entry complete notifies every subscriber registered for it.
PublishesWhenComplete ==
  [][\A n \in Node :
       LoopOf(n) =>
         \A salt \in DOMAIN gets'[n] :
            LET en == gets'[n][salt]
                complete == \A i \in 1..Len(en.chunks) : IsSome(en.chunks[i].payload)
                written == /\ HasKey(recently_fetched'[n], salt)
                           /\ \/ ~HasKey(recently_fetched[n], salt)
                              \/ recently_fetched'[n][salt] # recently_fetched[n][salt]
            IN /\ written => /\ complete
                             /\ recently_fetched'[n][salt] = <<now, SlotBodies(en)>>
               /\ complete => /\ HasKey(recently_fetched'[n], salt)
                              /\ \A fr \in DOMAIN en.futures :
                                   futures'[en.futures[fr]].notified]_vars

\* the value of two chunks was published to two subscribers, both notified
PublishedToBoth ==
  /\ HasKey(recently_fetched["B"], Subject1)
  /\ recently_fetched["B"][Subject1][2] = <<7, 7>>
  /\ HasKey(gets["B"], Subject1)
  /\ Len(gets["B"][Subject1].chunks) = 2
  /\ Cardinality(DOMAIN gets["B"][Subject1].futures) = 2
  /\ Len(futures) = 2
  /\ \A f \in 1..2 : futures[f].state = "pending" /\ futures[f].notified


\* C24: in every reachable state in which the number_of_chunks of a
\* GetsEntry is known, the length of its chunk vector equals it, and a
\* resize to a new number keeps the contents of the slots that remain.
ChunkVectorMatches ==
  /\ [](\A n \in Node : \A salt \in DOMAIN gets[n] :
          IsSome(gets[n][salt].number_of_chunks)
            => Len(gets[n][salt].chunks) = Unwrap(gets[n][salt].number_of_chunks))
  /\ [][\A n \in Node : \A salt \in DOMAIN gets[n] : \A i \in SlotsKept(n, salt) :
          LoopOf(n) => gets'[n][salt].chunks[i].payload = gets[n][salt].chunks[i].payload]_vars


(***************************************************************************)
(* Boot: the dht_threads have just been started, with the DHT bootstrap    *)
(* delayed or not; time passes, bootstrap alerts arrive, enable_dht may    *)
(* fail.                                                                   *)
(***************************************************************************)
\* delay_dht of a test drill, in seconds (0 otherwise)
DrillDelay == 33
DelaysDht == {0, DrillDelay}

\* the time explored in the boot runs
MaxBootNow == StartTime + DrillDelay + 1
BootSteps == {1, DrillDelay}

\* Started, with each dht_thread at DhtDelayed::init (&ctx, delay_dht)
Booting ==
  /\ now = StartTime
  /\ our_public_key = KeyOf
  /\ \E delay \in DelaysDht :
       thread = [n \in Node |-> [status |-> "running", our_public_key |-> KeyOf[n],
                                 stop |-> FALSE, on_stop |-> TRUE,
                                 boot_status |-> "Delayed", until |-> StartTime + delay,
                                 bootstrapped |-> 0, enable_dht |-> 0]]
  /\ cmd = [n \in Node |-> <<>>]
  /\ trans = [n \in Node |-> DefaultTransMeta]
  /\ send_handlers = <<>>
  /\ gets = [n \in Node |-> EmptyMap]
  /\ recently_fetched = [n \in Node |-> EmptyMap]
  /\ futures = <<>>
  /\ udp = {}
  /\ dht = EmptyMap
  /\ dht_gets = [n \in Node |-> {}]
  /\ dht_puts = [n \in Node |-> {}]
  /\ PUT_SHUTTLES = [n \in Node |-> EmptyMap]
  /\ RATELIM = [n \in Node |-> EmptyMap]
  /\ calls = {}
  /\ pongs_seen = [n \in Node |-> EmptyMap]
  /\ ret = Ret("initialize", "B", "Ok")
  /\ investigations = 0
  /\ duplicates = 0
  /\ cd = CodecIdle
  /\ mmctx = MmCtxNew
  /\ locks = LocksFree
  /\ respawned = NoRespawn

BootstrapAlert == \E n \in Senders : bootstrap_alert(n)
EnableDhtError == \E n \in Senders : enable_dht_error(n)
BootLoop == \E n \in Senders : \E o \in EpOrders(n) : \E ok \in UdpOutcomes : LoopTimeout(n, o, ok)
BootTime == \E d \in BootSteps : TickWithin(d, MaxBootNow)

NextBoot == BootLoop \/ BootstrapAlert \/ EnableDhtError \/ BootTime

SpecBoot == Booting /\ [][NextBoot]_vars

\* C25: boot state machine.  The boot status of a dht_thread moves only
\* from Delayed to Bootstrapping and from Bootstrapping to Bootstrapped;
\* enable_dht is called once at most, by the iteration that leaves Delayed
\* (or that ends the thread because enable_dht failed) and only after the
\* deadline has passed; and the status becomes Bootstrapped only after a
\* bootstrap alert was observed.
BootMovesForward ==
  /\ [](\A n \in Node :
          /\ thread[n].enable_dht <= 1
          /\ thread[n].boot_status # "Delayed" => thread[n].enable_dht = 1
          /\ (thread[n].boot_status = "Delayed" /\ Running(n)) => thread[n].enable_dht = 0
          /\ thread[n].boot_status = "Bootstrapped" => thread[n].bootstrapped > 0)
  /\ [][\A n \in Node :
          LET a == thread[n].boot_status
              b == thread'[n].boot_status
          IN /\ a # b => \/ a = "Delayed" /\ b = "Bootstrapping"
                         \/ a = "Bootstrapping" /\ b = "Bootstrapped"
             /\ (a = "Delayed" /\ b = "Bootstrapping")
                  => thread'[n].enable_dht = thread[n].enable_dht + 1
             /\ thread'[n].enable_dht # thread[n].enable_dht
                  => /\ a = "Delayed" /\ now > thread[n].until
                     /\ b = "Bootstrapping" \/ thread'[n].status = "returned"
             /\ (a # b /\ b = "Bootstrapped") => thread[n].bootstrapped > 0]_vars

\* a delayed dht_thread has bootstrapped: the deadline of the drill passed,
\* enable_dht was called once and the alert came after it
BootstrappedAfterDelay ==
  \E n \in Node :
     /\ thread[n].boot_status = "Bootstrapped"
     /\ thread[n].until = StartTime + DrillDelay
     /\ thread[n].enable_dht = 1
     /\ thread[n].bootstrapped > thread[n].until


(***************************************************************************)
(* Gating: A has queued the two chunks of a payload for its friend B, who  *)
(* is known under one endpoint or two; the chunks have been pinged and put *)
(* before, the rate limiter of B has been used before.  Transmit passes,   *)
(* with lt_send_udp working or failing, put callbacks and time.            *)
(***************************************************************************)
SecondEndpoint == "10.0.0.2:2113"
GatedFriends == {{EndpointOf["B"]}, {EndpointOf["B"], SecondEndpoint}}

\* what transmit has left on a payload before
GatedMetas ==
  {[dht_put_invoked |-> 0, pings |-> 0, pongs |-> 0],
   [dht_put_invoked |-> 0, pings |-> 1, pongs |-> 1],
   [dht_put_invoked |-> 0, pings |-> U8Max - 1, pongs |-> 0],
   [dht_put_invoked |-> 0, pings |-> U8Max, pongs |-> 0],
   [dht_put_invoked |-> StartTime - PutPeriod, pings |-> 0, pongs |-> 0]}

\* the operations the rate limiter has on record
GatedOps ==
  {PutRetryOpsLimit, PutRetryOpsLimit + 1, PutOpsLimit, PutOpsLimit + 1,
   DirectOpsLimit, DirectOpsLimit + 1}

\* the time explored in the gating runs
MaxGatedNow == StartTime + PutPeriod
GatedSteps == {PutPeriod - 1, PutPeriod}

\* the registry of A after split_and_put queued the two chunks
QueuedTrans(friends, m1, m2) ==
  LET tr == split_and_put([BefriendedTrans["A"] EXCEPT !.friends = KeyOf["B"] :> friends],
                          EmptyMap, KeyOf["A"], KeyOf["B"], Subject1, TwoChunks, 1,
                          [i \in 1..2 |-> 0]).trans
      pix == Len(tr.packages)
  IN [tr EXCEPT !.packages[pix].payloads[1].meta = m1,
                !.packages[pix].payloads[2].meta = m2]

Queued ==
  /\ now = StartTime
  /\ our_public_key = KeyOf
  /\ thread = [n \in Node |-> [status |-> "running", our_public_key |-> KeyOf[n],
                                stop |-> FALSE, on_stop |-> TRUE,
                                boot_status |-> "Bootstrapped", until |-> StartTime,
                                bootstrapped |-> StartTime, enable_dht |-> 1]]
  /\ cmd = [n \in Node |-> <<>>]
  /\ \E friends \in GatedFriends : \E m1, m2 \in GatedMetas :
       trans = [BefriendedTrans EXCEPT !["A"] = QueuedTrans(friends, m1, m2)]
  /\ send_handlers = <<TRUE>>
  /\ gets = [n \in Node |-> EmptyMap]
  /\ recently_fetched = [n \in Node |-> EmptyMap]
  /\ futures = <<>>
  /\ udp = {}
  /\ dht = EmptyMap
  /\ dht_gets = [n \in Node |-> {}]
  /\ dht_puts = [n \in Node |-> {}]
  /\ PUT_SHUTTLES = [n \in Node |-> EmptyMap]
  /\ \E ops \in GatedOps :
       RATELIM = [n \in Node |-> IF n = "A" THEN KeyOf["B"] :> <<StartTime, ops>> ELSE EmptyMap]
  /\ calls = {}
  /\ pongs_seen = [A |-> <<<<1, 0>>, EndpointOf["B"]>> :> 1, B |-> EmptyMap]
  /\ ret = Ret("send", "A", "Ok")
  /\ investigations = 1
  /\ duplicates = 0
  /\ cd = CodecIdle
  /\ mmctx = MmCtxNew
  /\ locks = LocksFree
  /\ respawned = NoRespawn

GatedPass == \E n \in Senders : \E o \in EpOrders(n) : \E ok \in BOOLEAN : LoopTimeout(n, o, ok)
GatedTime == \E d \in GatedSteps : TickWithin(d, MaxGatedNow)

NextGating == GatedPass \/ PutCallback \/ GatedTime

SpecGating == Queued /\ [][NextGating]_vars

\* the step is an iteration of a dht_thread: no time passes, libtorrent
\* invokes no put callback
PassStep == now' = now /\ dht' = dht /\ thread' = thread

\* the meta of the payload `id` in the registry `tr`
MetaOf(tr, id) ==
  LET at == CHOOSE a \in {<<pix, ix>> \in (1..Len(tr.packages)) \X (1..2) :
                             /\ ix <= Len(tr.packages[pix].payloads)
                             /\ tr.packages[pix].payloads[ix].mm.id = id} : TRUE
  IN tr.packages[at[1]].payloads[at[2]].meta

\* the lt_send_udp calls of the iteration for the payload `mm` of node n
PingCalls(cs, n, mm) ==
  {c \in cs : c.prim = "lt_send_udp" /\ c.node = n /\ c.id = mm.id /\ c.pong = 0}

\* the dht_put calls of the iteration for the payload `mm` of node n
PutCalls(cs, n, mm) ==
  {c \in cs : c.prim = "dht_put" /\ c.node = n /\ Some(c.salt) = mm.salt}

\* the pings of the payloads ix.. of `pkg` counted between two registries
RECURSIVE PingsAdded(_, _, _, _)
PingsAdded(tr, after, pkg, ix) ==
  IF ix > Len(pkg.payloads) THEN 0
  ELSE MetaOf(after, pkg.payloads[ix].mm.id).pings - pkg.payloads[ix].meta.pings
       + PingsAdded(tr, after, pkg, ix + 1)

PutsBefore(cs, n, pkg, ix) ==
  UNION {PutCalls(cs, n, pkg.payloads[k].mm) : k \in 1..(ix - 1)}

FetchChunks == 3

\* a chunk slot: still missing or populated, restarted 3, 4 or 5 s ago
FetchSlots ==
  {[restarted |-> StartTime - d, seq_auth |-> 0, payload |-> None] : d \in {3, 4, 5}}
    \cup {[restarted |-> StartTime - d, seq_auth |-> 1, payload |-> Some(<<7>>)] : d \in {4, 5}}

FetchOps == {GetsOpsLimit - 1, GetsOpsLimit, GetsOpsLimit + 1}

MaxFetchNow == StartTime + GetsPeriod

Fetching ==
  /\ now = StartTime
  /\ our_public_key = KeyOf
  /\ thread = [n \in Node |-> [status |-> "running", our_public_key |-> KeyOf[n],
                                stop |-> FALSE, on_stop |-> TRUE,
                                boot_status |-> "Bootstrapped", until |-> StartTime,
                                bootstrapped |-> StartTime, enable_dht |-> 1]]
  /\ cmd = [n \in Node |-> <<>>]
  /\ trans = BefriendedTrans
  /\ send_handlers = <<>>
  /\ \E slots \in [1..FetchChunks -> FetchSlots] :
       gets = [n \in Node |->
                 IF n = "B"
                   THEN Subject1 :> [pk |-> Some(DerivedPk(KeyOf["B"])),
                                     reassembled_at |-> None,
                                     number_of_chunks |-> Some(FetchChunks),
                                     chunks |-> SubSeq(slots, 1, FetchChunks),
                                     futures |-> 1 :> 1]
                   ELSE EmptyMap]
  /\ recently_fetched = [n \in Node |-> EmptyMap]
  /\ futures = <<[node |-> "B", seed |-> KeyOf["B"], salt |-> Subject1,
                  validator |-> "always_true", frid |-> Some(1), state |-> "pending",
                  notified |-> FALSE, result |-> None]>>
  /\ udp = {}
  /\ dht = EmptyMap
  /\ dht_gets = [n \in Node |-> {}]
  /\ dht_puts = [n \in Node |-> {}]
  /\ PUT_SHUTTLES = [n \in Node |-> EmptyMap]
  /\ \E ops \in FetchOps :
       RATELIM = [n \in Node |-> IF n = "B" THEN KeyOf["B"] :> <<StartTime, ops>> ELSE EmptyMap]
  /\ calls = {}
  /\ pongs_seen = [A |-> <<<<1, 0>>, EndpointOf["B"]>> :> 1, B |-> EmptyMap]
  /\ ret = Ret("recv", "B", "Ok")
  /\ investigations = 1
  /\ duplicates = 0
  /\ cd = CodecIdle
  /\ mmctx = MmCtxNew
  /\ locks = LocksFree
  /\ respawned = NoRespawn

FetchPass == \E n \in Receivers : \E o \in EpOrders(n) : \E ok \in UdpOutcomes : LoopTimeout(n, o, ok)
FetchTime == \E d \in TickSteps : TickWithin(d, MaxFetchNow)

NextFetching == FetchPass \/ FetchTime

SpecFetching == Fetching /\ [][NextFetching]_vars

\* slot j is considered before slot i: it misses its payload and i does
\* not, or they are alike in that and j was restarted earlier
ConsideredFirst(chunks, j, i) ==
  \/ IsNone(chunks[j].payload) /\ IsSome(chunks[i].payload)
  \/ /\ IsNone(chunks[j].payload) = IsNone(chunks[i].payload)
     /\ chunks[j].restarted < chunks[i].restarted

\* C28: gets-scheduler gating and order.  In a pass of the gets scheduler a
\* dht_get of a chunk slot is issued only if the slot was restarted 4 s ago
\* or earlier and the rate limiter stands at 10 operations at most; the
\* dht_get sets the restart time of the slot to the current time and adds
\* one to the operations; and no slot is fetched while a slot considered
\* before it (missing payload first, oldest restart first) that is due
\* stays unfetched.
GetsGated ==
  [][PassStep =>
       \A n \in Receivers : \A salt \in DOMAIN gets[n] :
          LET en == gets[n][salt]
              chunks == IF IsSome(en.number_of_chunks)
                          THEN Resize(en.chunks, Unwrap(en.number_of_chunks))
                          ELSE en.chunks
              after == gets'[n][salt].chunks
              seed == thread[n].our_public_key
              m == Ops(ratelim_maintenance(RATELIM[n], seed), seed)
              got == {idx \in 1..Len(chunks) : GetCall(n, seed, salt \o <<idx>>) \in calls'}
              due == {idx \in 1..Len(chunks) : now - chunks[idx].restarted >= GetsPeriod}
          IN /\ Len(after) = Len(chunks)
             /\ got \subseteq due
             /\ got # {} => m + Cardinality(got) - 1 <= GetsOpsLimit
             /\ \A idx \in 1..Len(chunks) :
                   after[idx].restarted = IF idx \in got THEN now ELSE chunks[idx].restarted
             /\ Ops(RATELIM'[n], seed) = m + Cardinality(got)
             /\ \A i \in got : \A j \in due \ got : ~ConsideredFirst(chunks, j, i)]_vars

\* the rate limit was reached during the pass: a missing chunk was fetched,
\* a populated slot that was due was not
FetchCutShort ==
  \E n \in Receivers : \E salt \in DOMAIN gets[n] :
     LET chunks == gets[n][salt].chunks
         seed == thread[n].our_public_key
     IN /\ Ops(RATELIM[n], seed) = GetsOpsLimit + 1
        /\ \E i, j \in 1..Len(chunks) :
              /\ IsNone(chunks[i].payload)
              /\ chunks[i].restarted = now
              /\ GetCall(n, seed, salt \o <<i>>) \in calls
              /\ IsSome(chunks[j].payload)
              /\ now - chunks[j].restarted >= GetsPeriod


(***************************************************************************)
(* The commands of a RecvFuture, under SpecReceiver.                       *)
(***************************************************************************)
\* the places of the queue q that hold the Get of the future f
GetsOf(q, f) == {i \in 1..Len(q) : q[i].op = "Get" /\ q[i].task = f}

\* the places of the queue q that hold a DropGet {salt, frid}
DropGetsOf(q, salt, frid) ==
  {i \in 1..Len(q) : q[i].op = "DropGet" /\ q[i].salt = salt /\ q[i].frid = frid}

\* no other future of the node has drawn the frid of f for the same salt
LoneFrid(f) ==
  \A g \in 1..Len(futures) :
     (g # f /\ futures[g].node = futures[f].node /\ futures[g].salt = futures[f].salt)
       => futures[g].frid # futures[f].frid

\* the command the step sends to the dht_thread of n, if any
Sent(n) ==
  IF Len(cmd'[n]) = Len(cmd[n]) + 1 THEN {cmd'[n][Len(cmd'[n])]} ELSE {}

\* C29: RecvFuture command protocol.  A RecvFuture sends Get once, on its
\* first poll, with the frid it keeps from then on; when it is dropped it
\* sends DropGet with its salt and frid if it has sent Get and nothing if it
\* has not; the command queue is first in, first out, so the Get of a future
\* is dequeued before its DropGet.
RecvFutureProtocol ==
  /\ [](\A f \in 1..Len(futures) :
          LET fu == futures[f]
              q == cmd[fu.node]
          IN /\ Cardinality(GetsOf(q, f)) <= 1
             /\ IsNone(fu.frid) => GetsOf(q, f) = {}
             /\ \A i \in GetsOf(q, f) :
                   q[i].frid = Unwrap(fu.frid) /\ q[i].salt = fu.salt /\ q[i].seed = fu.seed
             /\ (IsSome(fu.frid) /\ LoneFrid(f)) =>
                  LET drops == DropGetsOf(q, fu.salt, Unwrap(fu.frid))
                  IN /\ fu.state # "dropped" => drops = {}
                     /\ Cardinality(drops) <= 1
                     /\ \A i \in GetsOf(q, f) : \A j \in drops : i < j)
  /\ [][/\ \A n \in Node :
             \/ cmd'[n] = cmd[n]
             \/ cmd[n] # <<>> /\ cmd'[n] = Tail(cmd[n])
             \/ Len(cmd'[n]) = Len(cmd[n]) + 1 /\ SubSeq(cmd'[n], 1, Len(cmd[n])) = cmd[n]
        /\ \A f \in 1..Len(futures) :
             LET fu == futures[f]
                 after == futures'[f]
                 n == fu.node
                 first == IsNone(fu.frid) /\ IsSome(after.frid)
                 dropped == fu.state # "dropped" /\ after.state = "dropped"
             IN /\ IsSome(fu.frid) => after.frid = fu.frid
                /\ first <=> \E c \in Sent(n) : c.op = "Get" /\ c.task = f
                /\ first => Sent(n) = {[op |-> "Get", seed |-> fu.seed, salt |-> fu.salt,
                                        frid |-> Unwrap(after.frid), task |-> f]}
                /\ dropped => IF IsSome(fu.frid)
                                THEN Sent(n) = {[op |-> "DropGet", salt |-> fu.salt,
                                                 frid |-> Unwrap(fu.frid)]}
                                ELSE cmd' = cmd
        /\ \A n \in Node : \A c \in Sent(n) :
             c.op = "DropGet" =>
               \E f \in 1..Len(futures) :
                  /\ futures[f].node = n
                  /\ futures[f].state # "dropped" /\ futures'[f].state = "dropped"
                  /\ futures[f].salt = c.salt
                  /\ futures[f].frid = Some(c.frid)]_vars

\* a future was polled twice and dropped: its Get was dequeued and has
\* subscribed it, its DropGet is the next command
DropGetFollowsGet ==
  \E f \in 1..Len(futures) :
     LET fu == futures[f] IN
     /\ fu.state = "dropped"
     /\ IsSome(fu.frid)
     /\ LoneFrid(f)
     /\ cmd[fu.node] = <<[op |-> "DropGet", salt |-> fu.salt, frid |-> Unwrap(fu.frid)]>>
     /\ HasKey(gets[fu.node], fu.salt)
     /\ HasKey(gets[fu.node][fu.salt].futures, Unwrap(fu.frid))
     /\ gets[fu.node][fu.salt].futures[Unwrap(fu.frid)] = f


\* C30: fetching stops when interest vanishes.  While the GetsEntry of a
\* subject salt has no subscriber, its last one having been removed by a
\* DropGet, and no new Get for the salt is dequeued, the dht_thread issues
\* no dht_get for any chunk of that salt.
FetchingStops ==
  [][\A n \in Receivers : \A salt \in DOMAIN gets[n] :
        (DOMAIN gets[n][salt].futures = {} /\ DOMAIN gets'[n][salt].futures = {})
          => ~\E idx \in 1..Len(gets[n][salt].chunks) :
                /\ idx <= Len(gets'[n][salt].chunks)
                /\ GetCall(n, thread[n].our_public_key, salt \o <<idx>>) \in calls'
                /\ gets[n][salt].chunks[idx].restarted < now
                /\ gets'[n][salt].chunks[idx].restarted = now]_vars


(***************************************************************************)
(* Shuttles: A has put the two chunks of a payload for B just now or 600 s *)
(* ago; libtorrent replays the put callbacks, the put_handler working or   *)
(* failing; A sends again.                                                 *)
(***************************************************************************)
\* the put callback of one dht_put is replayed up to MaxReplays times
MaxReplays == 2
\* SendHandlers in the runs with a second send
MaxResends == 2
\* the age of the shuttles at the start, in seconds
ShuttleAges == {0, 600}
MaxShuttleNow == StartTime + 1

\* what the DHT holds under the salt of chunk 1 before the puts: nothing, or
\* the value of an earlier send
StoredBefore ==
  {EmptyMap,
   <<DerivedPk(KeyOf["B"]), Subject1 \o <<1>> >> :> [v |-> bencode(<<9>>), seq |-> 7]}

PutMeta(age) == [dht_put_invoked |-> StartTime - age, pings |-> 1, pongs |-> 1]

\* the registry of A after transmit has put its two chunks `age` seconds ago
ShuttledTrans(age) == QueuedTrans({EndpointOf["B"]}, PutMeta(age), PutMeta(age))

\* the PutShuttle transmit made for the payload `p`
ShuttleOf(p, age) == [created |-> StartTime - age, seed |-> KeyOf["B"], chunk |-> Unwrap(p.mm.chunk)]

Shuttled ==
  /\ now = StartTime
  /\ our_public_key = KeyOf
  /\ thread = [n \in Node |-> [status |-> "running", our_public_key |-> KeyOf[n],
                                stop |-> FALSE, on_stop |-> TRUE,
                                boot_status |-> "Bootstrapped", until |-> StartTime,
                                bootstrapped |-> StartTime, enable_dht |-> 1]]
  /\ cmd = [n \in Node |-> <<>>]
  /\ send_handlers = <<TRUE>>
  /\ gets = [n \in Node |-> EmptyMap]
  /\ recently_fetched = [n \in Node |-> EmptyMap]
  /\ futures = <<>>
  /\ udp = {}
  /\ dht \in StoredBefore
  /\ dht_gets = [n \in Node |-> {}]
  /\ \E age \in ShuttleAges : \E tr \in {ShuttledTrans(age)} :
       \E payloads \in {tr.packages[Len(tr.packages)].payloads} :
          /\ trans = [BefriendedTrans EXCEPT !["A"] = tr]
          /\ PUT_SHUTTLES = [n \in Node |->
                               IF n = "A"
                                 THEN [ptr \in 1..Len(payloads) |-> ShuttleOf(payloads[ptr], age)]
                                 ELSE EmptyMap]
          /\ dht_puts = [n \in Node |->
                           IF n = "A"
                             THEN {[ptr |-> ptr, created |-> StartTime - age, seed |-> KeyOf["B"],
                                    salt |-> Unwrap(payloads[ptr].mm.salt), invoked |-> 0] :
                                     ptr \in 1..Len(payloads)}
                             ELSE {}]
  /\ RATELIM = [n \in Node |-> EmptyMap]
  /\ calls = {}
  /\ pongs_seen = [A |-> <<<<1, 0>>, EndpointOf["B"]>> :> 1, B |-> EmptyMap]
  /\ ret = Ret("send", "A", "Ok")
  /\ investigations = 1
  /\ duplicates = 0
  /\ cd = CodecIdle
  /\ mmctx = MmCtxNew
  /\ locks = LocksFree
  /\ respawned = NoRespawn

PutReplay ==
  \E n \in Senders : \E req \in dht_puts[n] : \E ok \in BOOLEAN :
     put_callback_of(n, req, MaxReplays, ok)
SendAgain ==
  \E n \in Senders : send_within(n, KeyOf[Peer(n)], Subject2, TwoChunks, MaxResends)
ShuttlePut ==
  \E n \in Senders : \E rnds \in [1..IdsNeeded(n) -> Rand48] :
     \E o \in EpOrders(n) : \E ok \in UdpOutcomes : LoopPut(n, rnds, o, ok)
ShuttleTime == TickWithin(1, MaxShuttleNow)

NextShuttle == PutReplay \/ SendAgain \/ ShuttlePut \/ ShuttleTime

SpecShuttle == Shuttled /\ [][NextShuttle]_vars

\* the chunks of the payloads of n that go under the chunk salt `salt`
ChunksUnder(n, salt) ==
  {trans[n].packages[pix].payloads[ix].mm.chunk :
     <<pix, ix>> \in {a \in (1..Len(trans[n].packages)) \X (1..2) :
                        /\ a[2] <= Len(trans[n].packages[a[1]].payloads)
                        /\ trans[n].packages[a[1]].payloads[a[2]].mm.salt = Some(salt)}}

\* C31: put callback.  Every invocation of the put callback for a registered
\* shuttle whose put_handler succeeds (it counts one operation of the rate
\* limiter) leaves the freshly bencoded chunk of the payload as the value,
\* whatever the existing value was, and the sequence number one higher;
\* when the put_handler fails, the existing value and the sequence number
\* stay.  So it is for every invocation of the same shuttle.
PutCallbackWrites ==
  [][\A n \in Senders : \A req \in dht_puts[n] :
        (req \notin dht_puts'[n] /\ [req EXCEPT !.invoked = @ + 1] \in dht_puts'[n]
           /\ HasKey(PUT_SHUTTLES[n], req.ptr)
           /\ PUT_SHUTTLES[n][req.ptr].created = req.created)
          => LET key == <<DerivedPk(req.seed), req.salt>>
                 have == DhtHave(key)
             IN /\ thread' = thread
                /\ HasKey(dht', key)
                /\ ChunksUnder(n, req.salt) # {}
                /\ IF RATELIM'[n] # RATELIM[n]
                     THEN /\ \A chunk \in ChunksUnder(n, req.salt) :
                                dht'[key].v = bencode(Unwrap(chunk))
                          /\ dht'[key].seq = have.seq + 1
                     ELSE dht'[key] = [v |-> have.v, seq |-> have.seq]]_vars

\* the callback of the put of chunk 1 was invoked twice with a working
\* put_handler, over the value of an earlier send
ReplayedTwice ==
  \E n \in Senders : \E req \in dht_puts[n] :
     LET key == <<DerivedPk(req.seed), req.salt>> IN
     /\ req.invoked = MaxReplays
     /\ req.salt = Subject1 \o <<1>>
     /\ HasKey(dht, key)
     /\ dht[key].seq = 7 + MaxReplays
     /\ \A chunk \in ChunksUnder(n, req.salt) : dht[key].v = bencode(Unwrap(chunk))

\* the lifetime of a shuttle the specification names, in seconds
ShuttleLifetime == 600

\* C32: put-shuttle lifetime.  A shuttle stays in PUT_SHUTTLES while it is
\* no more than 600 s old, so that a callback with its pointer and creation
\* timestamp finds it and the thread does not panic; and after a step that
\* takes a Put command from the queue no shuttle older than 600 s is left.
ShuttleLifetimeKept ==
  [][\A n \in Senders :
       /\ \A ptr \in DOMAIN PUT_SHUTTLES[n] :
             now' - PUT_SHUTTLES[n][ptr].created <= ShuttleLifetime
               => /\ HasKey(PUT_SHUTTLES'[n], ptr)
                  /\ PUT_SHUTTLES'[n][ptr].created = PUT_SHUTTLES[n][ptr].created
                  /\ thread'[n].status = "running"
       /\ (AtCmd(n, "Put") /\ cmd'[n] = Tail(cmd[n]))
            => \A ptr \in DOMAIN PUT_SHUTTLES'[n] :
                  now - PUT_SHUTTLES'[n][ptr].created <= ShuttleLifetime]_vars

(***************************************************************************)
(* Ids: the id_seq of A stands at 1 or shortly before 2^16; A investigates *)
(* B and sends two chunks, B pongs.                                        *)
(***************************************************************************)
IdSeqs == {1, U16Mod - 2, U16Mod - 1}
\* the low 48 bits the random generator gives
IdRands == {3, 258}

Numbered ==
  /\ now = StartTime
  /\ our_public_key = KeyOf
  /\ thread = [n \in Node |-> [status |-> "running", our_public_key |-> KeyOf[n],
                                stop |-> FALSE, on_stop |-> TRUE,
                                boot_status |-> "Bootstrapped", until |-> StartTime,
                                bootstrapped |-> StartTime, enable_dht |-> 1]]
  /\ cmd = [n \in Node |-> <<>>]
  /\ \E seq \in IdSeqs : trans = [BefriendedTrans EXCEPT !["A"].id_seq = seq]
  /\ send_handlers = <<>>
  /\ gets = [n \in Node |-> EmptyMap]
  /\ recently_fetched = [n \in Node |-> EmptyMap]
  /\ futures = <<>>
  /\ udp = {}
  /\ dht = EmptyMap
  /\ dht_gets = [n \in Node |-> {}]
  /\ dht_puts = [n \in Node |-> {}]
  /\ PUT_SHUTTLES = [n \in Node |-> EmptyMap]
  /\ RATELIM = [n \in Node |-> EmptyMap]
  /\ calls = {}
  /\ pongs_seen = [A |-> <<<<1, 0>>, EndpointOf["B"]>> :> 1, B |-> EmptyMap]
  /\ ret = Ret("investigate_peer", "A", "Ok")
  /\ investigations = 0
  /\ duplicates = 0
  /\ mmctx = MmCtxNew
  /\ locks = LocksFree
  /\ respawned = NoRespawn
  /\ cd = CodecIdle

IdPut ==
  \E n \in Node : \E rnds \in [1..IdsNeeded(n) -> IdRands] :
     \E o \in EpOrders(n) : \E ok \in UdpOutcomes : LoopPut(n, rnds, o, ok)
IdPing ==
  \E n \in Node : \E rnd \in IdRands :
     \E o \in EpOrders(n) : \E ok \in UdpOutcomes : LoopPing(n, rnd, o, ok)

NextIds == Send \/ Investigate \/ IdPut \/ IdPing \/ Timeout \/ IncomingPing

SpecIds == Numbered /\ [][NextIds]_vars

\* the ids of the payloads with pong = 0 in the registry `tr`
PingIds(tr) ==
  {tr.packages[a[1]].payloads[a[2]].mm.id :
     a \in {b \in (1..Len(tr.packages)) \X (1..2) :
              /\ b[2] <= Len(tr.packages[b[1]].payloads)
              /\ tr.packages[b[1]].payloads[b[2]].mm.pong = 0}}

\* the ids node n allocated in the step: those of its payloads and of the
\* pings it transmitted that its registry did not hold before
Allocated(n) ==
  (PingIds(trans'[n])
     \cup {c.id : c \in {d \in calls' : d.prim = "lt_send_udp" /\ d.node = n /\ d.pong = 0}})
  \ PingIds(trans[n])

\* the 16 bits at the top of the 8 bytes of an id
TopBits(id) == id_buf(id)[1] * 256 + id_buf(id)[2]

\* C33: ping id allocation.  Every allocation of an id adds 1 to id_seq
\* modulo 2^16 and the id carries the new id_seq in its top 16 bits, so the
\* ids allocated in a step (discovery pings and chunk payloads alike) carry
\* the values that follow the id_seq of before, one each, whatever their low
\* 48 bits; consecutive chunk payloads carry consecutive values; a step
\* that only enqueues pongs leaves id_seq as it was, the pong carrying the
\* id of its ping.
IdsConsecutive ==
  [][\A n \in Node :
       LET k == (trans'[n].id_seq - trans[n].id_seq + U16Mod) % U16Mod IN
       /\ {TopBits(id) : id \in Allocated(n)}
            = {(trans[n].id_seq + i) % U16Mod : i \in 1..k}
       /\ Cardinality(Allocated(n)) = k
       /\ \A id \in Allocated(n) : Len(id_buf(id)) = 8
       /\ \A pix \in 1..Len(trans'[n].packages) :
             LET ps == trans'[n].packages[pix].payloads IN
             /\ \A ix \in 1..(Len(ps) - 1) :
                   ps[ix].mm.pong = 0 /\ ps[ix + 1].mm.pong = 0
                     => TopBits(ps[ix + 1].mm.id) = (TopBits(ps[ix].mm.id) + 1) % U16Mod
             /\ \A ix \in 1..Len(ps) :
                   (ps[ix].mm.pong = 1 /\ \A q \in 1..Len(trans[n].packages) : trans[n].packages[q] # trans'[n].packages[pix])
                     => ps[ix].mm.id \in {pkt.mm.id : pkt \in udp}]_vars

\* A holds two chunk payloads whose id_seq wrapped from 65535 to 0, their
\* low 48 bits differing, and B holds a pong with the id of a ping of A
IdSeqWrapped ==
  /\ \E pix \in 1..Len(trans["A"].packages) :
        LET ps == trans["A"].packages[pix].payloads IN
        /\ Len(ps) = 2
        /\ TopBits(ps[1].mm.id) = U16Mod - 1
        /\ TopBits(ps[2].mm.id) = 0
        /\ SubSeq(id_buf(ps[1].mm.id), 3, 8) # SubSeq(id_buf(ps[2].mm.id), 3, 8)
  /\ trans["A"].id_seq = 1
  /\ trans["B"].id_seq = 0
  /\ \E pix \in 1..Len(trans["B"].packages) :
        trans["B"].packages[pix].payloads[1].mm.pong = 1

(***************************************************************************)
(* Threads: the callers of the API and the dht_thread side by side.        *)
(***************************************************************************)
NextThreads ==
  \/ Send \/ DropSend \/ Recv \/ Poll \/ DropRecv \/ Investigate \/ Key
  \/ Put \/ Get \/ DropGet \/ PingCmd \/ Timeout
  \/ DhtItem \/ PutCallback

SpecThreads == Started /\ [][NextThreads]_vars

\* a step of a caller of the API
ApiStep == Send \/ DropSend \/ Recv \/ Poll \/ DropRecv \/ Investigate \/ Key

\* the step invokes dht_put, dht_get or lt_send_udp
Invokes ==
  \/ calls' # calls
  \/ ~(udp' \subseteq udp)
  \/ \E n \in Node : ~(dht_gets'[n] \subseteq dht_gets[n])
  \/ \E n \in Node : ~({[r EXCEPT !.invoked = 0] : r \in dht_puts'[n]}
                           \subseteq {[r EXCEPT !.invoked = 0] : r \in dht_puts[n]})

\* C34: only the dht_thread invokes dht_put, dht_get and lt_send_udp.  A
\* step of send, recv, poll or drop of a RecvFuture, investigate_peer or key
\* invokes no primitive and leaves the DHT, the fetches, the shuttles and the
\* rate limiter alone; it appends commands to the channel or touches
\* trans_meta and reads recently_fetched.  Every step that invokes a
\* primitive is an iteration of the loop of a dht_thread.
OnlyThreadInvokes ==
  [][/\ ApiStep => /\ ~Invokes
                    /\ UNCHANGED <<dht, gets, recently_fetched, PUT_SHUTTLES, RATELIM, thread>>
                    /\ \A n \in Node :
                          /\ Len(cmd'[n]) >= Len(cmd[n])
                          /\ SubSeq(cmd'[n], 1, Len(cmd[n])) = cmd[n]
                          /\ trans'[n].packages = trans[n].packages
                          /\ trans'[n].id_seq = trans[n].id_seq
     /\ Invokes => \E n \in Node : LoopOf(n)]_vars

\* a Get command waits in the channel of B while the dht_thread of A has
\* put a chunk and pinged: callers enqueued, the threads invoked
CallersAndThreads ==
  /\ \E c \in calls : c.prim = "dht_put" /\ c.node = "A"
  /\ \E c \in calls : c.prim = "lt_send_udp"
  /\ \E i \in 1..Len(cmd["B"]) : cmd["B"][i].op = "Get"
  /\ futures # <<>>

\* the outcomes of MutableItem that reject the item as malformed
ItemErrors == {"garbage", "undecodable", "out of bounds", "gibberish", "checksum"}

\* C35: a chunk rejected as a protocol error (short salt, index byte 0,
\* chunk of less than 5 bytes, checksum mismatch, index out of bounds) is
\* dropped without effect on the gets registry: no GetsEntry is created and
\* no GetsEntry changes, on the direct-ping path and on the DHT path.
RejectedChunkDropped ==
  [][\A n \in Receivers :
       /\ \A mm \in ProtoPings :
             (/\ PingArrival(n, mm)
              /\ Len(mm.from) = KeyLen
              /\ IncomingChunk(gets[n], thread[n].our_public_key,
                               Unwrap(mm.salt), Unwrap(mm.chunk)).err # "")
               => gets'[n] = gets[n]
       /\ \A it \in ProtoItems : \A seq \in ForgedSeqs :
             (/\ dht_mutable_item(n, DerivedPk(KeyOf[n]), it[1], it[2], seq, TRUE)
              /\ MutableItem(gets[n], thread[n].our_public_key, DerivedPk(KeyOf[n]),
                             it[1], it[2], seq, TRUE).out \in ItemErrors)
               => gets'[n] = gets[n]]_vars

(***************************************************************************)
(* Counters: A holds two chunk payloads for B that were pinged and ponged  *)
(* up to 255 times; the pong of the first arrives once more, the network   *)
(* duplicating it, while the dht_thread keeps transmitting.                *)
(***************************************************************************)
CountedMetas ==
  {[dht_put_invoked |-> StartTime, pings |-> U8Max - 1, pongs |-> 0],
   [dht_put_invoked |-> StartTime, pings |-> U8Max, pongs |-> 0],
   [dht_put_invoked |-> StartTime, pings |-> U8Max, pongs |-> U8Max - 1],
   [dht_put_invoked |-> StartTime, pings |-> U8Max, pongs |-> U8Max]}
MaxCountedNow == StartTime + 2

Counted ==
  /\ now = StartTime
  /\ our_public_key = KeyOf
  /\ thread = [n \in Node |-> [status |-> "running", our_public_key |-> KeyOf[n],
                                stop |-> FALSE, on_stop |-> TRUE,
                                boot_status |-> "Bootstrapped", until |-> StartTime,
                                bootstrapped |-> StartTime, enable_dht |-> 1]]
  /\ cmd = [n \in Node |-> <<>>]
  /\ send_handlers = <<TRUE>>
  /\ gets = [n \in Node |-> EmptyMap]
  /\ recently_fetched = [n \in Node |-> EmptyMap]
  /\ futures = <<>>
  /\ \E friends \in GatedFriends : \E m1, m2 \in CountedMetas :
       \E tr \in {QueuedTrans(friends, m1, m2)} :
          /\ trans = [BefriendedTrans EXCEPT !["A"] = tr]
          /\ udp = {[src |-> EndpointOf["B"], dst |-> EndpointOf["A"],
                     mm |-> MmPing(tr.packages[Len(tr.packages)].payloads[1].mm.id,
                                   KeyOf["B"], 1)]}
  /\ dht = EmptyMap
  /\ dht_gets = [n \in Node |-> {}]
  /\ dht_puts = [n \in Node |-> {}]
  /\ PUT_SHUTTLES = [n \in Node |-> EmptyMap]
  /\ RATELIM = [n \in Node |-> EmptyMap]
  /\ calls = {}
  /\ pongs_seen = [A |-> <<<<1, 0>>, EndpointOf["B"]>> :> 1, B |-> EmptyMap]
  /\ ret = Ret("send", "A", "Ok")
  /\ investigations = 1
  /\ duplicates = 0
  /\ cd = CodecIdle
  /\ mmctx = MmCtxNew
  /\ locks = LocksFree
  /\ respawned = NoRespawn

CountedPass == \E n \in Senders : \E o \in EpOrders(n) : \E ok \in BOOLEAN : LoopTimeout(n, o, ok)
CountedTime == TickWithin(1, MaxCountedNow)

NextCounters == CountedPass \/ IncomingPing \/ DuplicatedPing \/ CountedTime

SpecCounters == Counted /\ [][NextCounters]_vars

\* the metas of the payloads of the registry `tr`, by payload id
Metas(tr) ==
  {<<tr.packages[a[1]].payloads[a[2]].mm.id, tr.packages[a[1]].payloads[a[2]].meta>> :
     a \in {b \in (1..Len(tr.packages)) \X (1..2) : b[2] <= Len(tr.packages[b[1]].payloads)}}

\* C36: outbound counters never wrap.  In every reachable state the pings
\* and the pongs of every outbound payload are within 0..255, and no step
\* makes either of them smaller, however many passes transmit the payload,
\* to however many endpoints, and however many pongs carry its id.
CountersNeverWrap ==
  /\ [](\A n \in Node : \A m \in Metas(trans[n]) :
          m[2].pings \in 0..U8Max /\ m[2].pongs \in 0..U8Max)
  /\ [][\A n \in Node : \A m \in Metas(trans[n]) : \A w \in Metas(trans'[n]) :
          m[1] = w[1] => (w[2].pings >= m[2].pings /\ w[2].pongs >= m[2].pongs)]_vars

\* C37: no publication before chunk #1.  A step writes the fetched cache
\* under a subject salt only if the GetsEntry of that salt knows its
\* number_of_chunks and it is at least 1; a GetsEntry with an empty chunk
\* vector causes no payload to be published.
PublishedAfterFirstChunk ==
  [][\A n \in Node : \A salt \in DOMAIN recently_fetched'[n] :
       (~HasKey(recently_fetched[n], salt)
          \/ recently_fetched'[n][salt] # recently_fetched[n][salt])
         => /\ HasKey(gets'[n], salt)
            /\ IsSome(gets'[n][salt].number_of_chunks)
            /\ Unwrap(gets'[n][salt].number_of_chunks) >= 1
            /\ Len(gets'[n][salt].chunks) >= 1]_vars

\* C38: a send that is rejected because the peer key is all zeroes leaves
\* the shared state as it was: the friends, the packages and the id_seq of
\* trans_meta and the contents of the command channel.
RejectedSendLeavesState ==
  [][\A n \in Senders : \A p \in ApiPayloads :
       send(n, ZeroKey, Subject1, p)
         => /\ ret'.result # "Ok"
            /\ trans'[n].friends = trans[n].friends
            /\ trans'[n].packages = trans[n].packages
            /\ trans'[n].id_seq = trans[n].id_seq
            /\ cmd' = cmd]_vars

(***************************************************************************)
(* Locks: the dht_thread, a caller of the API and a thread of libtorrent   *)
(* that runs put callbacks, each taking and releasing the mutexes in the   *)
(* order of the function it runs.                                          *)
(***************************************************************************)
\* put callbacks libtorrent holds at most
MaxPending == 2

Lock(m) == [op |-> "lock", m |-> m]
Unlock(m) == [op |-> "unlock", m |-> m]
DhtPut == [op |-> "dht_put", m |-> ""]

\* with_ratelim: RATELIM.lock(), the closure, the guard dropped
WithRatelim == <<Lock("RATELIM"), Unlock("RATELIM")>>

PutCallbackLocks_ratelim_first ==
  <<Lock("RATELIM"), Lock("PUT_SHUTTLES"), Unlock("PUT_SHUTTLES"), Unlock("RATELIM")>>

\* put_callback: PUT_SHUTTLES.lock(), the put_handler with its with_ratelim,
\* the guard dropped at the return
PutCallbackLocks == <<Lock("PUT_SHUTTLES")>> \o WithRatelim \o <<Unlock("PUT_SHUTTLES")>>

\* transmit of a package for a peer key: trans_meta.lock() for the whole
\* function; ratelim_maintenance; a direct ping; with `puts`, a dht_put made
\* with the shuttles locked until the end of the loop body
TransmitLocks(puts) ==
  <<Lock("trans_meta")>> \o WithRatelim \o WithRatelim
  \o (IF puts
        THEN <<Lock("PUT_SHUTTLES")>> \o WithRatelim \o <<DhtPut, Unlock("PUT_SHUTTLES")>>
        ELSE <<>>)
  \o <<Unlock("trans_meta")>>

\* split_and_put: the retain under PUT_SHUTTLES.lock(), a temporary; then
\* trans_meta.lock() to the end of the function
SplitAndPutLocks ==
  <<Lock("PUT_SHUTTLES"), Unlock("PUT_SHUTTLES"), Lock("trans_meta"), Unlock("trans_meta")>>

\* incoming_ping: the pong enqueued by ping_prime under its own trans_meta
\* lock, then trans_meta.lock() to the end of the function
IncomingPingLocks ==
  <<Lock("trans_meta"), Unlock("trans_meta"), Lock("trans_meta"), Unlock("trans_meta")>>

\* get_pieces_scheduler_en: ratelim_maintenance, a dht_get counted by
\* with_ratelim, the reassembled value stored under recently_fetched.lock()
GetsSchedulerLocks ==
  WithRatelim \o WithRatelim \o <<Lock("recently_fetched"), Unlock("recently_fetched")>>

\* send: trans_meta.lock() for the friends entry
SendLocks == <<Lock("trans_meta"), Unlock("trans_meta")>>

\* RecvFuture::poll: recently_fetched.lock() for the lookup
PollLocks == <<Lock("recently_fetched"), Unlock("recently_fetched")>>

\* the functions a thread runs
Routines(t) ==
  CASE t = "dht" -> {TransmitLocks(TRUE), TransmitLocks(FALSE), SplitAndPutLocks,
                     IncomingPingLocks, GetsSchedulerLocks}
    [] t = "api" -> {SendLocks, PollLocks}
    [] t = "lt" -> {PutCallbackLocks}

LocksInit ==
  /\ now = StartTime
  /\ our_public_key = KeyOf
  /\ thread = [n \in Node |-> [status |-> "running", our_public_key |-> KeyOf[n],
                                stop |-> FALSE, on_stop |-> TRUE,
                                boot_status |-> "Bootstrapped", until |-> StartTime,
                                bootstrapped |-> StartTime, enable_dht |-> 1]]
  /\ cmd = [n \in Node |-> <<>>]
  /\ trans = BefriendedTrans
  /\ send_handlers = <<>>
  /\ gets = [n \in Node |-> EmptyMap]
  /\ recently_fetched = [n \in Node |-> EmptyMap]
  /\ futures = <<>>
  /\ udp = {}
  /\ dht = EmptyMap
  /\ dht_gets = [n \in Node |-> {}]
  /\ dht_puts = [n \in Node |-> {}]
  /\ PUT_SHUTTLES = [n \in Node |-> EmptyMap]
  /\ RATELIM = [n \in Node |-> EmptyMap]
  /\ calls = {}
  /\ pongs_seen = [A |-> <<<<1, 0>>, EndpointOf["B"]>> :> 1, B |-> EmptyMap]
  /\ ret = Ret("investigate_peer", "A", "Ok")
  /\ investigations = 1
  /\ duplicates = 0
  /\ mmctx = MmCtxNew
  /\ cd = CodecIdle
  /\ locks = LocksFree
  /\ respawned = NoRespawn

LocksOnly ==
  UNCHANGED <<now, our_public_key, thread, cmd, trans, send_handlers, gets,
              recently_fetched, futures, udp, dht, dht_gets, dht_puts, PUT_SHUTTLES,
              RATELIM, calls, pongs_seen, ret, investigations, duplicates, cd, mmctx, respawned>>

\* thread t enters a function; libtorrent runs a put callback it holds
Enter(t) ==
  /\ locks.todo[t] = <<>>
  /\ t = "lt" => locks.pending > 0
  /\ \E r \in Routines(t) :
       locks' = [locks EXCEPT !.todo[t] = r,
                              !.pending = IF t = "lt" THEN @ - 1 ELSE @]
  /\ LocksOnly

\* Mutex::lock: t waits until the mutex is free (a std Mutex is not
\* reentrant: a thread that holds it waits for ever)
Acquire(t) ==
  /\ locks.todo[t] # <<>>
  /\ Head(locks.todo[t]).op = "lock"
  /\ locks.owner[Head(locks.todo[t]).m] = ""
  /\ locks' = [locks EXCEPT !.owner[Head(locks.todo[t]).m] = t, !.todo[t] = Tail(@)]
  /\ LocksOnly

\* the guard is dropped
Release(t) ==
  /\ locks.todo[t] # <<>>
  /\ Head(locks.todo[t]).op = "unlock"
  /\ locks' = [locks EXCEPT !.owner[Head(locks.todo[t]).m] = "", !.todo[t] = Tail(@)]
  /\ LocksOnly

\* dht_put hands the callback to libtorrent and returns
PutIssued(t) ==
  /\ locks.todo[t] # <<>>
  /\ Head(locks.todo[t]).op = "dht_put"
  /\ locks' = [locks EXCEPT !.pending = Min(@ + 1, MaxPending), !.todo[t] = Tail(@)]
  /\ LocksOnly

EnterAny == \E t \in LockThreads : Enter(t)
AcquireAny == \E t \in LockThreads : Acquire(t)
ReleaseAny == \E t \in LockThreads : Release(t)
PutIssuedAny == \E t \in LockThreads : PutIssued(t)

NextLocks == EnterAny \/ AcquireAny \/ ReleaseAny \/ PutIssuedAny

\* every thread that can take a step takes one; a thread that waits for a
\* mutex gets it if the mutex is free again and again
FairnessLocks ==
  \A t \in LockThreads :
     /\ WF_vars(Release(t)) /\ WF_vars(PutIssued(t))
     /\ SF_vars(Acquire(t))

SpecLocks == LocksInit /\ [][NextLocks]_vars /\ FairnessLocks

\* t waits for the mutex m
WaitsFor(t, m) ==
  locks.todo[t] # <<>> /\ Head(locks.todo[t]) = Lock(m)
\* the mutexes t holds
Held(t) == {m \in Mutexes : locks.owner[m] = t}

\* the order of the mutexes: a thread that holds `a` may lock `b`
LockedBefore(a, b) ==
  <<a, b>> \in {<<"trans_meta", "PUT_SHUTTLES">>, <<"trans_meta", "RATELIM">>,
               <<"PUT_SHUTTLES", "RATELIM">>}

\* a set of threads each waiting for a mutex another of them holds
CyclicWait ==
  \E S \in SUBSET LockThreads :
     /\ S # {}
     /\ \A t \in S : \E m \in Mutexes : WaitsFor(t, m) /\ locks.owner[m] \in S

\* C39: deadlock freedom.  Whatever the interleaving of the dht_thread, the
\* callers of the API and the put callbacks libtorrent runs on a thread of
\* its own, a thread locks a mutex only while it holds mutexes that come
\* before it in the order trans_meta, PUT_SHUTTLES, RATELIM (and none
\* together with recently_fetched); no set of threads waits in a cycle, and
\* every thread that waits for a mutex gets it.
LocksInOrder ==
  /\ [](\A t \in LockThreads : \A m \in Mutexes :
           WaitsFor(t, m) => \A h \in Held(t) : LockedBefore(h, m))
  /\ [](~CyclicWait)
  /\ \A t \in LockThreads : \A m \in Mutexes :
        WaitsFor(t, m) ~> (locks.owner[m] = t)

\* the dht_thread, inside transmit with trans_meta locked, waits for
\* PUT_SHUTTLES, which the put callback holds together with RATELIM on the
\* thread of libtorrent; the caller of send waits for trans_meta
ThreeThreadsContend ==
  /\ Held("dht") = {"trans_meta"}
  /\ WaitsFor("dht", "PUT_SHUTTLES")
  /\ Held("lt") = {"PUT_SHUTTLES", "RATELIM"}
  /\ WaitsFor("api", "trans_meta")

(***************************************************************************)
(* Reinitialization: initialize is called again on a context that runs a   *)
(* dht_thread already; the threads of the context take the commands from   *)
(* the one channel of the context.                                         *)
(***************************************************************************)
\* later calls of initialize explored per context
MaxRespawns == 1
\* the keys initialize is called with: that of the node and another
ReinitKeys(n) == {KeyOf[n], KeyOf[Peer(n)]}

\* initialize on a context that was initialized before: the key of the
\* context is overwritten and one more dht_thread is spawned with the new
\* key, the JoinHandle of the earlier thread is dropped, the thread runs on
initialize_again(n, key) ==
  /\ thread[n].status # "none"
  /\ Len(respawned[n]) < MaxRespawns
  /\ IF ~nonz(key)
       THEN /\ ret' = Ret("initialize", n, "Err: No public key")
            /\ UNCHANGED <<our_public_key, respawned>>
       ELSE /\ our_public_key' = [our_public_key EXCEPT ![n] = key]
            /\ respawned' = [respawned EXCEPT ![n] = Append(@,
                                [th |-> [status |-> "running", our_public_key |-> key,
                                         stop |-> thread[n].stop, on_stop |-> ~thread[n].stop,
                                         boot_status |-> "Delayed", until |-> now,
                                         bootstrapped |-> 0, enable_dht |-> 0],
                                 gets |-> EmptyMap])]
            /\ ret' = Ret("initialize", n, "Ok")
  /\ UNCHANGED calls
  /\ UNCHANGED <<now, thread, cmd, trans, send_handlers, gets, recently_fetched, futures,
                 udp, dht, dht_gets, dht_puts, PUT_SHUTTLES, RATELIM, pongs_seen,
                 investigations, duplicates, cd, mmctx, locks>>

\* the shared state after the iteration of the later thread i of n left `st`
CommitLater(n, i, st) ==
  /\ Committable(st)
  /\ trans' = [trans EXCEPT ![n] = st.trans]
  /\ respawned' = [respawned EXCEPT ![n][i] =
                     [th |-> [boot_step(@.th) EXCEPT !.status = st.status], gets |-> st.gets]]
  /\ recently_fetched' = [recently_fetched EXCEPT ![n] = st.fetched]
  /\ RATELIM' = [RATELIM EXCEPT ![n] = st.rl]
  /\ PUT_SHUTTLES' = [PUT_SHUTTLES EXCEPT ![n] = st.shuttles]
  /\ dht_gets' = [dht_gets EXCEPT ![n] = @ \cup st.requests]
  /\ dht_puts' = [dht_puts EXCEPT ![n] = @ \cup st.puts]
  /\ udp' = udp \cup st.packets
  /\ futures' = Notify(st.notify)
  /\ calls' = st.calls
  /\ UNCHANGED <<now, our_public_key, thread, gets, send_handlers, dht, pongs_seen, ret,
                 investigations, duplicates, cd, mmctx, locks>>

\* the state the later thread i of n starts an iteration with: the shared
\* maps and its own Gets registry
LaterState(n, i) == [SchedState(n) EXCEPT !.gets = respawned[n][i].gets]

LaterIteration(n, i, st, ep_order, udp_ok) ==
  IF st.status # "running" THEN CommitLater(n, i, st)
  ELSE LET tx == transmit(st, n, ep_order, udp_ok) IN
       \E order \in Orderings(DOMAIN tx.gets) :
          CommitLater(n, i, gets_pass_as(tx, n, order, respawned[n][i].th.our_public_key))

LaterRunning(n, i) ==
  /\ i \in 1..Len(respawned[n])
  /\ respawned[n][i].th.status = "running"
  /\ ~is_stopping(n)

\* Ok (LtCommand::Get {..}) => {assert_eq! (seed, our_public_key); ..} in a
\* later thread
LaterGet(n, i, ep_order, udp_ok) ==
  /\ LaterRunning(n, i)
  /\ cmd[n] # <<>>
  /\ Head(cmd[n]).op = "Get"
  /\ cmd' = [cmd EXCEPT ![n] = Tail(@)]
  /\ LaterIteration(n, i,
                    IF Head(cmd[n]).seed # respawned[n][i].th.our_public_key
                      THEN [LaterState(n, i) EXCEPT !.status = "panicked"]
                      ELSE get_pieces_scheduler(LaterState(n, i), n, Head(cmd[n])),
                    ep_order, udp_ok)

\* Err (channel::RecvTimeoutError::Timeout) => {} in a later thread
LaterTimeout(n, i, ep_order, udp_ok) ==
  /\ LaterRunning(n, i)
  /\ cmd[n] = <<>>
  /\ UNCHANGED cmd
  /\ LaterIteration(n, i, LaterState(n, i), ep_order, udp_ok)

FirstInitialize == \E n \in Receivers : initialize(n, KeyOf[n])
Reinitialize == \E n \in Receivers : \E key \in ReinitKeys(n) : initialize_again(n, key)
GetLater ==
  \E n \in Receivers : \E i \in 1..MaxRespawns :
     \E o \in EpOrders(n) : \E ok \in UdpOutcomes : LaterGet(n, i, o, ok)
TimeoutLater ==
  \E n \in Receivers : \E i \in 1..MaxRespawns :
     \E o \in EpOrders(n) : \E ok \in UdpOutcomes : LaterTimeout(n, i, o, ok)

NextReinit ==
  \/ FirstInitialize \/ Reinitialize \/ Recv \/ Poll
  \/ Get \/ Timeout \/ GetLater \/ TimeoutLater \/ Time

SpecReinit == Init /\ [][NextReinit]_vars

\* C40: the assertion of the dht_thread on Get never fails.  Whatever the
\* calls of initialize, recv and poll on a context, initialize called again
\* with another key included, a thread that takes a Get command from the
\* channel finds the seed of the command equal to its own public key: no
\* dht_thread of that context panics in the step.
GetSeedIsThreadKey ==
  [][\A n \in Node :
       (cmd[n] # <<>> /\ Head(cmd[n]).op = "Get" /\ cmd'[n] = Tail(cmd[n]))
         => /\ thread'[n].status = thread[n].status
            /\ \A i \in 1..Len(respawned[n]) :
                  respawned'[n][i].th.status = respawned[n][i].th.status]_vars

=============================================================================
